---- MODULE Spec2Model ----
(***************************************************************************)
(* code-atlas: the directory walker (walkDir), the content renderer        *)
(* (writeFileContent) and the CLI entry point (main).                      *)
(*                                                                         *)
(* A file or directory name is a sequence of one-character strings, a path *)
(* is a sequence of names, so that extname, toLowerCase, localeCompare and *)
(* the glob match are computed on the characters.                          *)
(***************************************************************************)
EXTENDS Integers, Sequences, FiniteSets, TLC

VARIABLES
  fs,             \* the directory tree: full path -> [isDir, size, mtime, ok]
  opts,           \* the resolved options record of main
  pc,             \* main: "start", "tree", "content", "done", "exit"
  exitCode,       \* process exit code: {} while running, {0} or {1}
  pass,           \* which callbacks walkDir was given: "none", "tree", "content"
  stack,          \* walkDir's recursion: one frame per walkDir call in progress
  wpc,            \* position of the innermost walkDir call
  depthOpen,      \* the depthOpen record shared by the whole recursion
  visits,         \* history: one record per loop iteration of walkDir
  active,         \* callbacks in progress: set of <<visit index, position>>
  output,         \* the output file: the sequence of chunks written to it
  includedPaths,  \* writeFileContent's includedPaths
  excludedPaths,  \* writeFileContent's excludedPaths
  sinkFiles,      \* the files the path lists are saved to: path -> {} or {text}
  calls,          \* what the file held, then the data of each direct appendToFile call
  result          \* direct call of a function: its arguments and its value

\* The output file and the two path-list files are three different files,
\* none of them inside the scanned directory.
vars == <<fs, opts, pc, exitCode, pass, stack, wpc, depthOpen, visits, active,
          output, includedPaths, excludedPaths, sinkFiles, calls, result>>

(***************************************************************************)
(* Bounds of the model.                                                    *)
(***************************************************************************)
MaxNodes == 3

\* direct calls of appendToFile on one file
MaxCalls == 2

\* patterns in the list given to a direct call of shouldIgnore
MaxPatterns == 2

\* arguments on a command line
MaxArgs == 2

\* byte sizes and modification times of the entries
StatValues == {1, 2}

(***************************************************************************)
(* Strings.                                                                *)
(***************************************************************************)
\* the characters, lower-case, in collation order ('.' sorts before letters)
Alphabet == <<".", "a", "b", "e", "m", "t", "z">>

Lower(c) == CASE c = "M" -> "m" [] c = "T" -> "t" [] c = "E" -> "e" [] OTHER -> c

IsUpper(c) == Lower(c) # c

toLowerCase(s) == [i \in 1..Len(s) |-> Lower(s[i])]

Rank(c) == CHOOSE i \in 1..Len(Alphabet) : Alphabet[i] = Lower(c)

RECURSIVE LexCmp(_, _)
LexCmp(x, y) ==
  IF x = <<>> /\ y = <<>> THEN 0
  ELSE IF x = <<>> THEN -1
  ELSE IF y = <<>> THEN 1
  ELSE IF Head(x) < Head(y) THEN -1
  ELSE IF Head(x) > Head(y) THEN 1
  ELSE LexCmp(Tail(x), Tail(y))

\* String.prototype.localeCompare: letters first compared without case,
\* then lower case before upper case
localeCompare(a, b) ==
  LET p == LexCmp([i \in 1..Len(a) |-> Rank(a[i])], [i \in 1..Len(b) |-> Rank(b[i])])
  IN IF p # 0 THEN p
     ELSE LexCmp([i \in 1..Len(a) |-> IF IsUpper(a[i]) THEN 1 ELSE 0],
                 [i \in 1..Len(b) |-> IF IsUpper(b[i]) THEN 1 ELSE 0])

(***************************************************************************)
(* Paths (node:path).                                                      *)
(***************************************************************************)
join(dirPath, name) == Append(dirPath, name)

basename(p) == p[Len(p)]

dirname(p) == SubSeq(p, 1, Len(p) - 1)

IsPrefix(p, q) == Len(p) <= Len(q) /\ SubSeq(q, 1, Len(p)) = p

\* path.relative(from, to) for a `to` below `from`
relative(from, to) == SubSeq(to, Len(from) + 1, Len(to))

LastDot(s) == IF \E i \in 1..Len(s) : s[i] = "."
              THEN CHOOSE i \in 1..Len(s) : s[i] = "." /\ \A j \in (i+1)..Len(s) : s[j] # "."
              ELSE 0

\* path.extname: from the last '.' of the base name to its end; empty when
\* there is no '.', when the only '.' is the first character, and for '..'
extname(p) ==
  LET b == basename(p)
      d == LastDot(b)
  IN IF d = 0 \/ d = 1 \/ b = <<".", ".">> THEN <<>> ELSE SubSeq(b, d, Len(b))

\* String.prototype.slice(1)
slice1(s) == IF s = <<>> THEN <<>> ELSE Tail(s)

(***************************************************************************)
(* minimatch(path, pattern, {dot: true}).  A pattern is a sequence of      *)
(* segment patterns; GlobStar is the segment '**', and in any other        *)
(* segment '*' stands for any run of characters.                           *)
(***************************************************************************)
GlobStar == <<"*", "*">>

RECURSIVE MatchSeg(_, _)
MatchSeg(n, p) ==
  IF p = <<>> THEN n = <<>>
  ELSE IF Head(p) = "*"
       THEN MatchSeg(n, Tail(p)) \/ (n # <<>> /\ MatchSeg(Tail(n), p))
       ELSE n # <<>> /\ Head(n) = Head(p) /\ MatchSeg(Tail(n), Tail(p))

RECURSIVE minimatch(_, _)
minimatch(path, pattern) ==
  IF pattern = <<>> THEN path = <<>>
  ELSE IF Head(pattern) = GlobStar
       THEN minimatch(path, Tail(pattern)) \/ (path # <<>> /\ minimatch(Tail(path), pattern))
       ELSE /\ path # <<>>
            /\ MatchSeg(Head(path), Head(pattern))
            /\ minimatch(Tail(path), Tail(pattern))

\* the path '.' (path.join never yields it for an entry of a listing)
DotPath == << <<".">> >>

\* `every` in the place of `some`
shouldIgnoreEvery(path, ignorePatterns) ==
  IF path = DotPath THEN TRUE
  ELSE \A k \in 1..Len(ignorePatterns) : minimatch(path, ignorePatterns[k])

shouldIgnore(path, ignorePatterns) ==
  IF path = DotPath THEN TRUE
  ELSE \E k \in 1..Len(ignorePatterns) : minimatch(path, ignorePatterns[k])

(***************************************************************************)
(* The file system and fs/promises.                                        *)
(***************************************************************************)
\* readdir(dirPath, {withFileTypes: true}): the Dirents of the children
Dirents(dirPath) ==
  { [name |-> basename(p), isDir |-> fs[p].isDir] :
      p \in { q \in DOMAIN fs : Len(q) = Len(dirPath) + 1 /\ IsPrefix(dirPath, q) } }

\* the orders in which readdir may return them (the file system decides)
readdir(dirPath) ==
  LET D == Dirents(dirPath)
      n == Cardinality(D)
  IN { s \in [1..n -> D] : \A i, j \in 1..n : i # j => s[i] # s[j] }

stat(p) == fs[p]

\* stat follows a symbolic link and rejects when its target is missing
statRejects(p) == fs[p].dangling

(***************************************************************************)
(* sortEntries.                                                            *)
(***************************************************************************)
DirectoriesFirstOff(a, b) == {}

\* {-1} or {1} when exactly one of the two is a directory, {} for null
directoriesFirst(a, b) ==
  IF a.isDir # b.isDir THEN (IF a.isDir THEN {-1} ELSE {1}) ELSE {}

Only(S) == CHOOSE x \in S : TRUE

compareStatsSwapped(a, b, dirPath, sort, multiplier) ==
  LET dirCompare == directoriesFirst(a, b)
      sa == stat(join(dirPath, a.name))
      sb == stat(join(dirPath, b.name))
      value == IF sort = "size" THEN sa.mtime - sb.mtime ELSE sa.size - sb.size
  IN IF dirCompare # {} THEN Only(dirCompare) ELSE multiplier * value

\* the comparator of the size/modified branch
compareStats(a, b, dirPath, sort, multiplier) ==
  LET dirCompare == directoriesFirst(a, b)
      sa == stat(join(dirPath, a.name))
      sb == stat(join(dirPath, b.name))
      value == IF sort = "size" THEN sa.size - sb.size ELSE sa.mtime - sb.mtime
  IN IF dirCompare # {} THEN Only(dirCompare) ELSE multiplier * value

\* the comparator of the name/type branch
compareNames(a, b, sort, multiplier) ==
  LET dirCompare == directoriesFirst(a, b)
      extA == toLowerCase(extname(<<a.name>>))
      extB == toLowerCase(extname(<<b.name>>))
  IN IF dirCompare # {} THEN Only(dirCompare)
     ELSE IF a.isDir THEN multiplier * localeCompare(a.name, b.name)
     ELSE IF sort = "type" /\ extA # extB THEN multiplier * localeCompare(extA, extB)
     ELSE multiplier * localeCompare(a.name, b.name)

compare(a, b, c) ==
  IF c.sort \in {"size", "modified"}
  THEN compareStats(a, b, c.dirPath, c.sort, c.multiplier)
  ELSE compareNames(a, b, c.sort, c.multiplier)

\* Array.prototype.sort is stable: x goes before the first element that
\* compares greater than it
InsertStable(x, s, c) ==
  LET later == { j \in 1..Len(s) : compare(s[j], x, c) > 0 }
      k == IF later = {} THEN Len(s) + 1 ELSE CHOOSE j \in later : \A m \in later : j <= m
  IN SubSeq(s, 1, k - 1) \o <<x>> \o SubSeq(s, k, Len(s))

RECURSIVE ArraySort(_, _)
ArraySort(s, c) ==
  IF s = <<>> THEN <<>>
  ELSE InsertStable(s[Len(s)], ArraySort(SubSeq(s, 1, Len(s) - 1), c), c)

sortEntriesAscending(entries, dirPath, sort, sortDirection) ==
  LET srt == IF sort = "undefined" THEN "name" ELSE sort
  IN ArraySort(entries, [sort |-> srt, dirPath |-> dirPath, multiplier |-> 1])

\* sort defaults to 'name' and sortDirection to 'asc'
sortEntries(entries, dirPath, sort, sortDirection) ==
  LET srt == IF sort = "undefined" THEN "name" ELSE sort
      dir == IF sortDirection = "undefined" THEN "asc" ELSE sortDirection
      multiplier == IF dir = "asc" THEN 1 ELSE -1
  IN ArraySort(entries, [sort |-> srt, dirPath |-> dirPath, multiplier |-> multiplier])

(***************************************************************************)
(* Template rendering (String.prototype.replace with a /g pattern).  Text  *)
(* is a sequence of tokens: one-character strings and the three            *)
(* placeholders, each taken as one token.                                  *)
(***************************************************************************)
PathPlaceholder == "{{path}}"
ExtensionPlaceholder == "{{extension}}"
ContentPlaceholder == "{{content}}"

RECURSIVE Flatten(_)
Flatten(ss) == IF ss = <<>> THEN <<>> ELSE Head(ss) \o Flatten(Tail(ss))

\* a relative path as text: the names joined by '/'
PathString(rel) ==
  Flatten([i \in 1..Len(rel) |-> IF i = 1 THEN rel[i] ELSE <<"/">> \o rel[i]])

\* the text inserted for one match: in the replacement string '$$' stands
\* for '$' and '$&' for the matched substring
RECURSIVE Expand(_, _)
Expand(replacement, matched) ==
  IF replacement = <<>> THEN <<>>
  ELSE IF Head(replacement) = "$" /\ Len(replacement) >= 2 /\ replacement[2] = "$"
       THEN <<"$">> \o Expand(Tail(Tail(replacement)), matched)
  ELSE IF Head(replacement) = "$" /\ Len(replacement) >= 2 /\ replacement[2] = "&"
       THEN <<matched>> \o Expand(Tail(Tail(replacement)), matched)
  ELSE <<Head(replacement)>> \o Expand(Tail(replacement), matched)

\* str.replace(/placeholder/g, replacement)
replaceAll(str, placeholder, replacement) ==
  Flatten([i \in 1..Len(str) |->
             IF str[i] = placeholder THEN Expand(replacement, placeholder) ELSE <<str[i]>>])

formatTemplate(fileTemplate, relPath, extension, content) ==
  replaceAll(
    replaceAll(
      replaceAll(fileTemplate, PathPlaceholder, relPath),
      ExtensionPlaceholder, extension),
    ContentPlaceholder, content)

(***************************************************************************)
(* File writes.  The content of a file is a sequence of chunks, and a file *)
(* that does not exist reads as the empty sequence.                        *)
(***************************************************************************)
\* writeFileSync(filePath, data, 'utf-8'): the file holds the data alone
writeFileSync(content, data) == data

appendToFileTruncating(content, data) == data

\* writeFileSync(filePath, data, {flag: 'a'}): the data goes after the content
appendToFile(content, data) == content \o data

\* one appendToFile call per chunk, in order
RECURSIVE appendEach(_, _)
appendEach(content, chunks) ==
  IF chunks = <<>> THEN content
  ELSE appendEach(appendToFile(content, <<Head(chunks)>>), Tail(chunks))

(***************************************************************************)
(* walkDir.                                                                *)
(***************************************************************************)
NoDepthOpen == [d \in {} |-> FALSE]

\* depthOpen[d], undefined read as false
IsOpen(open, d) == d \in DOMAIN open /\ open[d]

SetOpen(open, d, v) == [k \in DOMAIN open \cup {d} |-> IF k = d THEN v ELSE open[k]]

Frame(dirPath, rootDir, ignorePatterns, depth, options) ==
  [dirPath |-> dirPath, rootDir |-> rootDir, ignorePatterns |-> ignorePatterns,
   depth |-> depth, options |-> options, sortedEntries |-> <<>>, i |-> 1]

NoOptions == [sort |-> "undefined", sortDirection |-> "undefined"]

Top == stack[Len(stack)]

Entry == Top.sortedEntries[Top.i]

FullPath == join(Top.dirPath, Entry.name)

RelPath == relative(Top.rootDir, FullPath)

IsLastAmongAll(i, sortedEntries, dirPath) == i = Cardinality(Dirents(dirPath))

\* isLast = i === sortedEntries.length - 1 (i counted from 1 here)
IsLastIndex(i, sortedEntries, dirPath) == i = Len(sortedEntries)

IsLast == IsLastIndex(Top.i, Top.sortedEntries, Top.dirPath)

SameDepth(depth) == depth

\* the depth handed to the recursive call
ChildDepth(depth) == depth + 1

OpenAlways(isLast) == TRUE

\* depthOpen[depth] = !isLast
OpenWhileInside(isLast) == ~isLast

NotAwaited == TRUE

\* `await`: walkDir goes on only when the callback it called has settled
Awaited == active = {}

HasOnDir == pass = "tree"

Visit(cb) ==
  [pass |-> pass, isDir |-> Entry.isDir, fullPath |-> FullPath, relPath |-> RelPath,
   depth |-> Top.depth, isLast |-> IsLast, open |-> depthOpen, cb |-> cb]

\* readdir with its error swallowed: an unreadable directory lists as empty
ReadDirSuppressed ==
  /\ wpc = "readdir"
  /\ pc \in {"tree", "content"}
  /\ LET f == Top
         Keep(e) == ~shouldIgnore(join(f.dirPath, e.name), f.ignorePatterns)
     IN \E entries \in (IF fs[f.dirPath].ok THEN readdir(f.dirPath) ELSE {<<>>}) :
          /\ stack' = [stack EXCEPT ![Len(stack)].sortedEntries =
                         sortEntries(SelectSeq(entries, Keep), f.dirPath,
                                     f.options.sort, f.options.sortDirection)]
          /\ wpc' = "loop"
  /\ UNCHANGED <<sinkFiles, calls, result, fs, opts, pc, exitCode, pass, depthOpen, visits, active, output,
                 includedPaths, excludedPaths>>

\* readdir without the filter
ReadDirUnfiltered ==
  /\ wpc = "readdir"
  /\ pc \in {"tree", "content"}
  /\ LET f == Top
     IN IF ~fs[f.dirPath].ok
        THEN /\ wpc' = "rejected"
             /\ UNCHANGED stack
        ELSE \E entries \in readdir(f.dirPath) :
               /\ stack' = [stack EXCEPT ![Len(stack)].sortedEntries =
                              sortEntries(entries, f.dirPath,
                                          f.options.sort, f.options.sortDirection)]
               /\ wpc' = "loop"
  /\ UNCHANGED <<sinkFiles, calls, result, fs, opts, pc, exitCode, pass, depthOpen, visits, active, output,
                 includedPaths, excludedPaths>>

\* the await of readdir, the filter and the sort; the sort by size or time
\* awaits the stat of every entry kept and rejects when one of them does
ReadDir ==
  /\ wpc = "readdir"
  /\ pc \in {"tree", "content"}
  /\ LET f == Top
         Keep(e) == ~shouldIgnore(join(f.dirPath, e.name), f.ignorePatterns)
     IN IF ~fs[f.dirPath].ok
        THEN /\ wpc' = "rejected"
             /\ UNCHANGED stack
        ELSE \E entries \in readdir(f.dirPath) :
               IF /\ f.options.sort \in {"size", "modified"}
                  /\ \E i \in 1..Len(entries) :
                       Keep(entries[i]) /\ statRejects(join(f.dirPath, entries[i].name))
               THEN /\ wpc' = "rejected"
                    /\ UNCHANGED stack
               ELSE /\ stack' = [stack EXCEPT ![Len(stack)].sortedEntries =
                                   sortEntries(SelectSeq(entries, Keep), f.dirPath,
                                               f.options.sort, f.options.sortDirection)]
                    /\ wpc' = "loop"
  /\ UNCHANGED <<sinkFiles, calls, result, fs, opts, pc, exitCode, pass, depthOpen, visits, active, output,
                 includedPaths, excludedPaths>>

\* main's tree line for one entry
buildIndent(depth, open) ==
  [i \in 1..depth |-> IF IsOpen(open, i - 1) THEN "bar" ELSE "blank"]

TreeLine(v) ==
  [t |-> "tree", indent |-> buildIndent(v.depth, v.open),
   pipe |-> IF v.isLast THEN "last" ELSE "tee",
   name |-> basename(v.relPath), slash |-> v.isDir]

\* a directory entry, onDir given: the callback is called
CallOnDir ==
  /\ wpc = "loop"
  /\ Top.i <= Len(Top.sortedEntries)
  /\ Entry.isDir
  /\ HasOnDir
  /\ visits' = Append(visits, Visit(TRUE))
  /\ active' = active \cup {<<Len(visits) + 1, "return">>}
  /\ output' = appendToFile(output, <<TreeLine(Visit(TRUE))>>)
  /\ wpc' = "ondir"
  /\ UNCHANGED <<sinkFiles, calls, result, fs, opts, pc, exitCode, pass, stack, depthOpen, includedPaths,
                 excludedPaths>>

Recurse ==
  /\ depthOpen' = SetOpen(depthOpen, Top.depth, OpenWhileInside(IsLast))
  /\ stack' = Append(stack, Frame(FullPath, Top.rootDir, Top.ignorePatterns,
                                  ChildDepth(Top.depth), Top.options))
  /\ wpc' = "readdir"

\* after the awaited onDir: open the level and recurse
DescendAfterOnDir ==
  /\ wpc = "ondir"
  /\ Awaited
  /\ Recurse
  /\ UNCHANGED <<sinkFiles, calls, result, fs, opts, pc, exitCode, pass, visits, active, output,
                 includedPaths, excludedPaths>>

\* the directory is checked against maxFileSize like a file
DescendNoOnDirSized ==
  /\ wpc = "loop"
  /\ Top.i <= Len(Top.sortedEntries)
  /\ Entry.isDir
  /\ ~HasOnDir
  /\ visits' = Append(visits, Visit(FALSE))
  /\ Recurse
  /\ excludedPaths' =
       IF opts.maxFileSize # {} /\ stat(FullPath).size > Only(opts.maxFileSize)
       THEN Append(excludedPaths, RelPath) ELSE excludedPaths
  /\ UNCHANGED <<sinkFiles, calls, result, fs, opts, pc, exitCode, pass, active, output,
                 includedPaths>>

\* a directory entry, no onDir: open the level and recurse
DescendNoOnDir ==
  /\ wpc = "loop"
  /\ Top.i <= Len(Top.sortedEntries)
  /\ Entry.isDir
  /\ ~HasOnDir
  /\ visits' = Append(visits, Visit(FALSE))
  /\ Recurse
  /\ UNCHANGED <<sinkFiles, calls, result, fs, opts, pc, exitCode, pass, active, output, includedPaths,
                 excludedPaths>>

\* a file entry: onFile is called
CallOnFile ==
  /\ wpc = "loop"
  /\ Top.i <= Len(Top.sortedEntries)
  /\ ~Entry.isDir
  /\ visits' = Append(visits, Visit(TRUE))
  /\ wpc' = "onfile"
  /\ IF pass = "tree"
     THEN /\ active' = active \cup {<<Len(visits) + 1, "return">>}
          /\ output' = appendToFile(output, <<TreeLine(Visit(TRUE))>>)
     ELSE /\ active' = active \cup
                {<<Len(visits) + 1, IF opts.maxFileSize # {} THEN "stat" ELSE "read">>}
          /\ UNCHANGED output
  /\ UNCHANGED <<sinkFiles, calls, result, fs, opts, pc, exitCode, pass, stack, depthOpen, includedPaths,
                 excludedPaths>>

\* after the awaited onFile: the next entry
NextEntry ==
  /\ wpc = "onfile"
  /\ Awaited
  /\ stack' = [stack EXCEPT ![Len(stack)].i = @ + 1]
  /\ wpc' = "loop"
  /\ UNCHANGED <<sinkFiles, calls, result, fs, opts, pc, exitCode, pass, depthOpen, visits, active, output,
                 includedPaths, excludedPaths>>

\* the caller leaves the level as the descent set it
WalkReturnNoReset ==
  /\ wpc = "loop"
  /\ Top.i > Len(Top.sortedEntries)
  /\ IF Len(stack) = 1
     THEN /\ stack' = <<>>
          /\ wpc' = "resolved"
     ELSE /\ stack' = [SubSeq(stack, 1, Len(stack) - 1)
                         EXCEPT ![Len(stack) - 1].i = @ + 1]
          /\ wpc' = "loop"
  /\ UNCHANGED <<sinkFiles, calls, result, fs, opts, pc, exitCode, pass, depthOpen, visits, active, output,
                 includedPaths, excludedPaths>>

\* the loop is over: this walkDir call resolves; its caller closes the level
WalkReturn ==
  /\ wpc = "loop"
  /\ Top.i > Len(Top.sortedEntries)
  /\ IF Len(stack) = 1
     THEN /\ stack' = <<>>
          /\ wpc' = "resolved"
          /\ UNCHANGED depthOpen
     ELSE LET caller == stack[Len(stack) - 1]
          IN /\ depthOpen' = SetOpen(depthOpen, caller.depth, FALSE)
             /\ stack' = [SubSeq(stack, 1, Len(stack) - 1)
                            EXCEPT ![Len(stack) - 1].i = @ + 1]
             /\ wpc' = "loop"
  /\ UNCHANGED <<sinkFiles, calls, result, fs, opts, pc, exitCode, pass, visits, active, output, includedPaths,
                 excludedPaths>>

\* a tree-pass callback settles (its body has no await)
CallbackReturn ==
  /\ \E k \in 1..Len(visits) :
       /\ <<k, "return">> \in active
       /\ active' = active \ {<<k, "return">>}
  /\ UNCHANGED <<sinkFiles, calls, result, fs, opts, pc, exitCode, pass, stack, wpc, depthOpen, visits, output,
                 includedPaths, excludedPaths>>

(***************************************************************************)
(* writeFileContent: the onFile callback of the content pass.              *)
(***************************************************************************)
\* extname(filePath).slice(1).toLowerCase()
extension(filePath) == toLowerCase(slice1(extname(filePath)))

\* ext.toLowerCase().replace(/^\./, '')
AllowEntry(ext) ==
  LET l == toLowerCase(ext)
  IN IF l # <<>> /\ Head(l) = "." THEN Tail(l) ELSE l

shouldAlwaysInclude(filePath, alwaysIncludeExtensions) ==
  \E k \in 1..Len(alwaysIncludeExtensions) :
    AllowEntry(alwaysIncludeExtensions[k]) = extension(filePath)

\* fileStat.size > maxFileSize
Exceeds(size, maxFileSize) == size > maxFileSize

\* `if (fileTemplate)`: set and not the empty string
HasTemplate == opts.fileTemplate # {} /\ Only(opts.fileTemplate) # <<>>

EmissionFenceFirst(v) ==
  IF HasTemplate
  THEN << [t |-> "template",
           text |-> formatTemplate(Only(opts.fileTemplate), PathString(v.relPath),
                                   extension(v.fullPath), fs[v.fullPath].content)
                    \o <<"\n", "\n">>] >>
  ELSE << [t |-> "fence", extension |-> extension(v.fullPath),
           content |-> fs[v.fullPath].content],
          [t |-> "heading", path |-> v.relPath] >>

\* what one included file appends to the output
Emission(v) ==
  IF HasTemplate
  THEN << [t |-> "template",
           text |-> formatTemplate(Only(opts.fileTemplate), PathString(v.relPath),
                                   extension(v.fullPath), fs[v.fullPath].content)
                    \o <<"\n", "\n">>] >>
  ELSE << [t |-> "heading", path |-> v.relPath],
          [t |-> "fence", extension |-> extension(v.fullPath),
           content |-> fs[v.fullPath].content] >>

\* the size check without its `return`
OnFileStatNoReturn ==
  /\ \E k \in 1..Len(visits) :
       /\ <<k, "stat">> \in active
       /\ active' = (active \ {<<k, "stat">>}) \cup {<<k, "read">>}
       /\ LET v == visits[k]
          IN IF /\ stat(v.fullPath).size > Only(opts.maxFileSize)
                /\ ~shouldAlwaysInclude(v.fullPath, opts.alwaysIncludeExtensions)
             THEN excludedPaths' = Append(excludedPaths, v.relPath)
             ELSE UNCHANGED excludedPaths
  /\ UNCHANGED <<sinkFiles, calls, result, fs, opts, pc, exitCode, pass, stack, wpc, depthOpen, visits, output,
                 includedPaths>>

\* maxFileSize is set: the await of stat and the size check; a failing
\* stat rejects the callback and with it walkDir
OnFileStat ==
  /\ \E k \in 1..Len(visits) :
       /\ <<k, "stat">> \in active
       /\ LET v == visits[k]
          IN IF statRejects(v.fullPath)
             THEN /\ active' = active \ {<<k, "stat">>}
                  /\ wpc' = "rejected"
                  /\ UNCHANGED excludedPaths
             ELSE IF /\ Exceeds(stat(v.fullPath).size, Only(opts.maxFileSize))
                     /\ ~shouldAlwaysInclude(v.fullPath, opts.alwaysIncludeExtensions)
                  THEN /\ excludedPaths' = Append(excludedPaths, v.relPath)
                       /\ active' = active \ {<<k, "stat">>}
                       /\ UNCHANGED wpc
                  ELSE /\ active' = (active \ {<<k, "stat">>}) \cup {<<k, "read">>}
                       /\ UNCHANGED <<excludedPaths, wpc>>
  /\ UNCHANGED <<sinkFiles, calls, result, fs, opts, pc, exitCode, pass, stack, depthOpen, visits, output,
                 includedPaths>>

\* the path is recorded, the file is read and its entry is appended; a
\* failing readFile rejects the callback and with it walkDir
OnFileRead ==
  /\ \E k \in 1..Len(visits) :
       /\ <<k, "read">> \in active
       /\ active' = active \ {<<k, "read">>}
       /\ includedPaths' = Append(includedPaths, visits[k].relPath)
       /\ IF fs[visits[k].fullPath].ok
          THEN /\ output' = appendEach(output, Emission(visits[k]))
               /\ UNCHANGED wpc
          ELSE /\ wpc' = "rejected"
               /\ UNCHANGED output
  /\ UNCHANGED <<sinkFiles, calls, result, fs, opts, pc, exitCode, pass, stack, depthOpen, visits, excludedPaths>>

(***************************************************************************)
(* main.                                                                   *)
(***************************************************************************)
SortMethods == {"name", "size", "modified", "type"}

SortDirections == {"asc", "desc"}

\* TRUE when validateConfig throws
validateConfigThrows(config) ==
  \/ config.maxFileSize # {} /\ Only(config.maxFileSize) # 0 /\ Only(config.maxFileSize) < 0
  \/ config.sort \notin {"undefined", ""} /\ config.sort \notin SortMethods
  \/ config.sortDirection \notin {"undefined", ""} /\ config.sortDirection \notin SortDirections

\* the header is written before the config is validated
MainStartHeaderFirst ==
  /\ pc = "start"
  /\ output' = writeFileSync(output, << [t |-> "header"] >>)
  /\ IF validateConfigThrows(opts)
     THEN /\ pc' = "exit"
          /\ exitCode' = {1}
          /\ UNCHANGED <<pass, stack, wpc, depthOpen>>
     ELSE /\ pass' = "tree"
          /\ stack' = << Frame(opts.dir, opts.dir, opts.ignore, 0, NoOptions) >>
          /\ wpc' = "readdir"
          /\ depthOpen' = NoDepthOpen
          /\ pc' = "tree"
          /\ UNCHANGED exitCode
  /\ UNCHANGED <<sinkFiles, calls, result, fs, opts, visits, active, includedPaths, excludedPaths>>

\* validateConfig, the header, and the call of walkDir for the tree
MainStart ==
  /\ pc = "start"
  /\ IF validateConfigThrows(opts)
     THEN /\ pc' = "exit"
          /\ exitCode' = {1}
          /\ UNCHANGED <<pass, stack, wpc, depthOpen, output>>
     ELSE /\ output' = writeFileSync(output, << [t |-> "header"] >>)
          /\ pass' = "tree"
          /\ stack' = << Frame(opts.dir, opts.dir, opts.ignore, 0, NoOptions) >>
          /\ wpc' = "readdir"
          /\ depthOpen' = NoDepthOpen
          /\ pc' = "tree"
          /\ UNCHANGED exitCode
  /\ UNCHANGED <<sinkFiles, calls, result, fs, opts, visits, active, includedPaths, excludedPaths>>

\* the content pass is started without the ignore patterns
MainTreeDoneNoIgnore ==
  /\ pc = "tree"
  /\ wpc = "resolved"
  /\ output' = appendToFile(output, << [t |-> "content"] >>)
  /\ pass' = "content"
  /\ includedPaths' = <<>>
  /\ excludedPaths' = <<>>
  /\ stack' = << Frame(opts.dir, opts.dir, <<>>, 0,
                       [sort |-> opts.sort, sortDirection |-> opts.sortDirection]) >>
  /\ wpc' = "readdir"
  /\ depthOpen' = NoDepthOpen
  /\ pc' = "content"
  /\ UNCHANGED <<sinkFiles, calls, result, fs, opts, exitCode, visits, active>>

\* the tree is written: the Content heading, then writeFileContent(options)
MainTreeDone ==
  /\ pc = "tree"
  /\ wpc = "resolved"
  /\ output' = appendToFile(output, << [t |-> "content"] >>)
  /\ pass' = "content"
  /\ includedPaths' = <<>>
  /\ excludedPaths' = <<>>
  /\ stack' = << Frame(opts.dir, opts.dir, opts.ignore, 0,
                       [sort |-> opts.sort, sortDirection |-> opts.sortDirection]) >>
  /\ wpc' = "readdir"
  /\ depthOpen' = NoDepthOpen
  /\ pc' = "content"
  /\ UNCHANGED <<sinkFiles, calls, result, fs, opts, exitCode, visits, active>>

\* Array.prototype.join('\n') of a path list
joinLines(paths) ==
  Flatten([i \in 1..Len(paths) |->
             IF i = 1 THEN PathString(paths[i]) ELSE <<"\n">> \o PathString(paths[i])])

\* `if (includedPathsFile)`: set and not the empty string
Configured(pathsFile) == pathsFile # {} /\ Only(pathsFile) # ""

SaveByAppending(files, pathsFile, paths) ==
  IF Configured(pathsFile)
  THEN [files EXCEPT ![Only(pathsFile)] =
          {appendToFile(IF @ = {} THEN <<>> ELSE Only(@), joinLines(paths))}]
  ELSE files

\* writeFileSync(pathsFile, paths.join('\n'), 'utf-8') when pathsFile is set
SavePaths(files, pathsFile, paths) ==
  IF Configured(pathsFile)
  THEN [files EXCEPT ![Only(pathsFile)] =
          {writeFileSync(IF @ = {} THEN <<>> ELSE Only(@), joinLines(paths))}]
  ELSE files

\* the path lists are saved after a rejected walkDir as well
WriteFileContentReturnAnyway ==
  /\ pass = "content"
  /\ wpc \in {"resolved", "rejected"}
  /\ sinkFiles' = SavePaths(SavePaths(sinkFiles, opts.includedPathsFile, includedPaths),
                            opts.excludedPathsFile, excludedPaths)
  /\ wpc' = "returned"
  /\ UNCHANGED <<calls, result, fs, opts, pc, exitCode, pass, stack, depthOpen, visits,
                 active, output, includedPaths, excludedPaths>>

\* walkDir resolved: writeFileContent saves the path lists and returns
WriteFileContentReturn ==
  /\ pass = "content"
  /\ wpc = "resolved"
  /\ sinkFiles' = SavePaths(SavePaths(sinkFiles, opts.includedPathsFile, includedPaths),
                            opts.excludedPathsFile, excludedPaths)
  /\ wpc' = "returned"
  /\ UNCHANGED <<calls, result, fs, opts, pc, exitCode, pass, stack, depthOpen, visits,
                 active, output, includedPaths, excludedPaths>>

\* writeFileContent returned: main is done
MainContentDone ==
  /\ pc = "content"
  /\ wpc = "returned"
  /\ pc' = "done"
  /\ exitCode' = {0}
  /\ UNCHANGED <<sinkFiles, calls, result, fs, opts, pass, stack, wpc, depthOpen, visits, active, output,
                 includedPaths, excludedPaths>>

\* a rejected walkDir lands in main's catch: process.exit(1)
MainCatch ==
  /\ pc \in {"tree", "content"}
  /\ wpc = "rejected"
  /\ pc' = "exit"
  /\ exitCode' = {1}
  /\ UNCHANGED <<sinkFiles, calls, result, fs, opts, pass, stack, wpc, depthOpen, visits, active, output,
                 includedPaths, excludedPaths>>

(***************************************************************************)
(* The directory trees and the options of the runs.                        *)
(***************************************************************************)
\* options.dir
RootDir == << <<"s">> >>

DirNames == { <<"z">>, <<"b">> }

FileNames == { <<"a", ".", "t">>, <<".", "e">>, <<"M", ".", "T">> }

\* the paths that can be added to tree T: a new child of the root or of a
\* directory of T
NewPaths(T) ==
  { join(p, n) : p \in {<<>>} \cup { q \in T : basename(q) \in DirNames },
                 n \in DirNames \cup FileNames } \ T

RECURSIVE TreesOf(_)
TreesOf(k) ==
  IF k = 0 THEN {{}}
  ELSE UNION { { T \cup {p} : p \in NewPaths(T) } : T \in TreesOf(k - 1) }

\* every tree of at most MaxNodes entries, as sets of paths below the root
Trees == UNION { TreesOf(k) : k \in 0..MaxNodes }

\* the ignore patterns **/z, **/*.t and **/.*
IgnoreDirZ == <<GlobStar, <<"z">>>>
IgnoreExtT == <<GlobStar, <<"*", ".", "t">>>>
IgnoreDotFiles == <<GlobStar, <<".", "*">>>>

FileContent == <<"x">>

FileSizes == {0, 1, 2}

DefaultOptions ==
  [dir |-> RootDir, ignore |-> <<>>, maxFileSize |-> {}, alwaysIncludeExtensions |-> <<>>,
   fileTemplate |-> {}, sort |-> "undefined", sortDirection |-> "undefined",
   includedPathsFile |-> {}, excludedPathsFile |-> {}]

\* the files the path lists can be saved to
SinkPaths == {"included.txt", "excluded.txt"}

NoSinkFiles == [p \in SinkPaths |-> {}]

\* no direct call was made
NoResult == [fn |-> "none"]

\* the runs that differ in the sort policy
SortRuns ==
  {DefaultOptions} \cup
  { [DefaultOptions EXCEPT !.sort = s, !.sortDirection = d] :
      s \in SortMethods, d \in SortDirections }

\* the runs that differ in the ignore patterns
IgnoreRuns ==
  { [DefaultOptions EXCEPT !.ignore = g] :
      g \in { <<IgnoreDirZ>>, <<IgnoreExtT, IgnoreDotFiles>> } }

\* the runs with a size limit: allowlists [], ['e'] and ['.T']
SizeLimitRuns ==
  { [DefaultOptions EXCEPT !.maxFileSize = {1}, !.alwaysIncludeExtensions = a] :
      a \in { <<>>, << <<"e">> >>, << <<".", "T">> >> } }
  \cup { [DefaultOptions EXCEPT !.maxFileSize = {1}, !.ignore = <<IgnoreDirZ>>] }

TemplateRuns ==
  { [DefaultOptions EXCEPT !.fileTemplate =
       { <<PathPlaceholder, ":", ExtensionPlaceholder, ":", ContentPlaceholder>> }] }

InvalidRuns == { [DefaultOptions EXCEPT !.sort = "invalid"] }

Runs == SortRuns \cup IgnoreRuns \cup SizeLimitRuns \cup TemplateRuns \cup InvalidRuns

\* sizes and times the run never reads are left at 1; with a size limit
\* the directories have a size above it
SizesOf(o, T) ==
  IF o.sort = "size" THEN [T -> StatValues]
  ELSE IF o.maxFileSize # {}
       THEN { f \in [T -> FileSizes] : \A p \in T : basename(p) \in DirNames => f[p] = 2 }
       ELSE { [p \in T |-> 1] }

TimesOf(o, T) ==
  IF o.sort = "modified" THEN [T -> StatValues] ELSE { [p \in T |-> 1] }

\* at most one path whose reading fails (a directory that cannot be listed,
\* the scan root included, or a file that cannot be read)
FailuresOf(o, T) ==
  IF o = DefaultOptions THEN {{}} \cup { {p} : p \in T \cup {<<>>} } ELSE {{}}

FileSystem(T, size, mtime, bad) ==
  [p \in { RootDir \o r : r \in T \cup {<<>>} } |->
     LET r == relative(RootDir, p)
     IN IF r = <<>>
        THEN [isDir |-> TRUE, size |-> 1, mtime |-> 1, ok |-> r \notin bad,
              content |-> <<>>, dangling |-> FALSE]
        ELSE [isDir |-> basename(r) \in DirNames, size |-> size[r], mtime |-> mtime[r],
              ok |-> r \notin bad, content |-> FileContent, dangling |-> FALSE]]

\* the file system in which the files of `links` are dangling symbolic
\* links: entries that are no directories and that stat and readFile fail on
Dangle(files, links) ==
  [p \in DOMAIN files |->
     IF relative(RootDir, p) \in links /\ ~files[p].isDir
     THEN [files[p] EXCEPT !.dangling = TRUE, !.ok = FALSE] ELSE files[p]]

Init ==
  /\ \E o \in Runs, T \in Trees :
       \E size \in SizesOf(o, T), mtime \in TimesOf(o, T), bad \in FailuresOf(o, T) :
         /\ opts = o
         /\ fs = FileSystem(T, size, mtime, bad)
  /\ pc = "start"
  /\ exitCode = {}
  /\ pass = "none"
  /\ stack = <<>>
  /\ wpc = "idle"
  /\ depthOpen = NoDepthOpen
  /\ visits = <<>>
  /\ active = {}
  /\ output = <<>>
  /\ includedPaths = <<>>
  /\ excludedPaths = <<>>
  /\ sinkFiles = NoSinkFiles
  /\ calls = <<>>
  /\ result = NoResult

Next ==
  \/ MainStart
  \/ ReadDir
  \/ CallOnDir
  \/ DescendAfterOnDir
  \/ DescendNoOnDir
  \/ CallOnFile
  \/ NextEntry
  \/ WalkReturn
  \/ CallbackReturn
  \/ OnFileStat
  \/ OnFileRead
  \/ MainTreeDone
  \/ WriteFileContentReturn
  \/ MainContentDone
  \/ MainCatch

Spec == Init /\ [][Next]_vars

(***************************************************************************)
(* writeFileContent called on one file with a template: the file's name,   *)
(* its content and the template are drawn from small sets.                 *)
(***************************************************************************)
TemplateNames ==
  { <<"a", ".", "t">>, <<"$", "&">>, <<ContentPlaceholder>>,
    <<"a", ".", ExtensionPlaceholder>> }

TemplateContents ==
  { <<"x">>, <<"$", "$">>, <<"a", "$", "&">>, <<PathPlaceholder>> }

Templates ==
  { <<PathPlaceholder>>, <<ContentPlaceholder>>, <<ContentPlaceholder, ContentPlaceholder>>,
    <<PathPlaceholder, ":", ExtensionPlaceholder, ":", ContentPlaceholder>> }

TemplateInit ==
  /\ \E n \in TemplateNames, c \in TemplateContents, tpl \in Templates :
       /\ opts = [DefaultOptions EXCEPT !.fileTemplate = {tpl}]
       /\ fs = [p \in {RootDir, join(RootDir, n)} |->
                  IF p = RootDir
                  THEN [isDir |-> TRUE, size |-> 1, mtime |-> 1, ok |-> TRUE,
                        content |-> <<>>]
                  ELSE [isDir |-> FALSE, size |-> 1, mtime |-> 1, ok |-> TRUE,
                        content |-> c]]
  /\ pc = "content"
  /\ exitCode = {}
  /\ pass = "content"
  /\ stack = << Frame(RootDir, RootDir, <<>>, 0, NoOptions) >>
  /\ wpc = "readdir"
  /\ depthOpen = NoDepthOpen
  /\ visits = <<>>
  /\ active = {}
  /\ output = <<>>
  /\ includedPaths = <<>>
  /\ excludedPaths = <<>>
  /\ sinkFiles = NoSinkFiles
  /\ calls = <<>>
  /\ result = NoResult

TemplateNext ==
  \/ ReadDir
  \/ CallOnFile
  \/ OnFileRead
  \/ NextEntry
  \/ WalkReturn

SpecTemplate == TemplateInit /\ [][TemplateNext]_vars

(***************************************************************************)
(* writeFileContent called on one directory of files with sort = type.     *)
(***************************************************************************)
SortNames == { <<"a", ".", "t">>, <<".", "z">>, <<"M", ".", "T">>, <<"b", ".", "e">> }

SortInit ==
  /\ \E d \in SortDirections, N \in SUBSET SortNames :
       /\ Cardinality(N) <= MaxNodes
       /\ opts = [DefaultOptions EXCEPT !.sort = "type", !.sortDirection = d]
       /\ fs = FileSystem({ <<n>> : n \in N }, [r \in { <<n>> : n \in N } |-> 1],
                          [r \in { <<n>> : n \in N } |-> 1], {})
       /\ stack = << Frame(RootDir, RootDir, <<>>, 0,
                           [sort |-> "type", sortDirection |-> d]) >>
  /\ pc = "content"
  /\ exitCode = {}
  /\ pass = "content"
  /\ wpc = "readdir"
  /\ depthOpen = NoDepthOpen
  /\ visits = <<>>
  /\ active = {}
  /\ output = <<>>
  /\ includedPaths = <<>>
  /\ excludedPaths = <<>>
  /\ sinkFiles = NoSinkFiles
  /\ calls = <<>>
  /\ result = NoResult

SortNext ==
  \/ ReadDir
  \/ CallOnFile
  \/ OnFileRead
  \/ NextEntry
  \/ WalkReturn

SpecSort == SortInit /\ [][SortNext]_vars

(***************************************************************************)
(* writeFileContent called with maxFileSize = 1 and with path-list files,  *)
(* which may exist before the call.                                        *)
(***************************************************************************)
\* what a path-list file holds before the call, when it exists
OldText == <<"o", "l", "d">>

LargeFile == <<"M", ".", "T">>

SinksInit ==
  /\ \E T \in Trees, i \in {{}, {""}, {"included.txt"}}, e \in {{}, {"excluded.txt"}},
        old \in {{}, {OldText}} :
       /\ opts = [DefaultOptions EXCEPT !.maxFileSize = {1}, !.includedPathsFile = i,
                                         !.excludedPathsFile = e]
       /\ fs = FileSystem(T, [r \in T |-> IF basename(r) = LargeFile THEN 2 ELSE 1],
                          [r \in T |-> 1], {})
       /\ sinkFiles = [p \in SinkPaths |-> old]
  /\ pc = "content"
  /\ exitCode = {}
  /\ pass = "content"
  /\ stack = << Frame(RootDir, RootDir, <<>>, 0, NoOptions) >>
  /\ wpc = "readdir"
  /\ depthOpen = NoDepthOpen
  /\ visits = <<>>
  /\ active = {}
  /\ output = <<>>
  /\ includedPaths = <<>>
  /\ excludedPaths = <<>>
  /\ calls = <<>>
  /\ result = NoResult

SinksNext ==
  \/ ReadDir
  \/ DescendNoOnDir
  \/ CallOnFile
  \/ NextEntry
  \/ WalkReturn
  \/ OnFileStat
  \/ OnFileRead
  \/ WriteFileContentReturn

SpecSinks == SinksInit /\ [][SinksNext]_vars

(***************************************************************************)
(* appendToFile called on a file, which may hold something already, and    *)
(* then writeFileContent called with that file as its output.              *)
(***************************************************************************)
\* what the file holds before the first call: nothing, or one chunk
PreviousContents == { <<>>, << [t |-> "text", s |-> "old"] >> }

\* the data of a call: the empty string or one chunk of text
AppendData == { <<>>, << [t |-> "text", s |-> "line1"] >>, << [t |-> "text", s |-> "line2"] >> }

AppendInit ==
  /\ \E T \in Trees : fs = FileSystem(T, [r \in T |-> 1], [r \in T |-> 1], {})
  /\ \E previous \in PreviousContents :
       /\ output = previous
       /\ calls = <<previous>>
  /\ opts = DefaultOptions
  /\ pc = "append"
  /\ exitCode = {}
  /\ pass = "none"
  /\ stack = <<>>
  /\ wpc = "idle"
  /\ depthOpen = NoDepthOpen
  /\ visits = <<>>
  /\ active = {}
  /\ includedPaths = <<>>
  /\ excludedPaths = <<>>
  /\ sinkFiles = NoSinkFiles
  /\ result = NoResult

\* appendToFile(filePath, data)
CallAppendToFile ==
  /\ pc = "append"
  /\ Len(calls) <= MaxCalls
  /\ \E data \in AppendData :
       /\ output' = appendToFile(output, data)
       /\ calls' = Append(calls, data)
  /\ UNCHANGED <<fs, opts, pc, exitCode, pass, stack, wpc, depthOpen, visits, active,
                 includedPaths, excludedPaths, sinkFiles, result>>

\* writeFileContent(options): the lists are empty and walkDir is called
CallWriteFileContent ==
  /\ pc = "append"
  /\ pass' = "content"
  /\ includedPaths' = <<>>
  /\ excludedPaths' = <<>>
  /\ stack' = << Frame(opts.dir, opts.dir, opts.ignore, 0,
                       [sort |-> opts.sort, sortDirection |-> opts.sortDirection]) >>
  /\ wpc' = "readdir"
  /\ depthOpen' = NoDepthOpen
  /\ pc' = "content"
  /\ UNCHANGED <<fs, opts, exitCode, visits, active, output, sinkFiles, calls, result>>

AppendNext ==
  \/ CallAppendToFile
  \/ CallWriteFileContent
  \/ ReadDir
  \/ DescendNoOnDir
  \/ CallOnFile
  \/ NextEntry
  \/ WalkReturn
  \/ OnFileRead
  \/ WriteFileContentReturn

SpecAppend == AppendInit /\ [][AppendNext]_vars

(***************************************************************************)
(* shouldIgnore called on a path and a list of patterns.                   *)
(***************************************************************************)
IgnorePatterns == { IgnoreDirZ, IgnoreExtT, IgnoreDotFiles, << <<"a", ".", "t">> >> }

PatternLists == UNION { [1..n -> IgnorePatterns] : n \in 0..MaxPatterns }

IgnorePaths ==
  { DotPath, << <<"a", ".", "t">> >>, << <<"z">> >>, << <<"z">>, <<"a", ".", "t">> >>,
    << <<".", "e">> >>, << <<"s">>, <<"z">>, <<".", "e">> >>, << <<"M", ".", "T">> >>,
    << <<"b">>, <<"z">> >> }

IgnoreInit ==
  /\ result = NoResult
  /\ fs = FileSystem({}, <<>>, <<>>, {})
  /\ opts = DefaultOptions
  /\ pc = "call"
  /\ exitCode = {}
  /\ pass = "none"
  /\ stack = <<>>
  /\ wpc = "idle"
  /\ depthOpen = NoDepthOpen
  /\ visits = <<>>
  /\ active = {}
  /\ output = <<>>
  /\ includedPaths = <<>>
  /\ excludedPaths = <<>>
  /\ sinkFiles = NoSinkFiles
  /\ calls = <<>>

\* shouldIgnore(path, ignorePatterns)
CallShouldIgnore ==
  /\ pc = "call"
  /\ \E path \in IgnorePaths, ignorePatterns \in PatternLists :
       result' = [fn |-> "shouldIgnore", path |-> path, ignorePatterns |-> ignorePatterns,
                  value |-> shouldIgnore(path, ignorePatterns)]
  /\ UNCHANGED <<fs, opts, pc, exitCode, pass, stack, wpc, depthOpen, visits, active,
                 output, includedPaths, excludedPaths, sinkFiles, calls>>

IgnoreNext == CallShouldIgnore

SpecIgnore == IgnoreInit /\ [][IgnoreNext]_vars

(***************************************************************************)
(* Configuration (config.ts).  A config or CLIArgs object is a function    *)
(* from its own keys to values; a value is a string (Str, or Text when its *)
(* characters matter), a number, an array, NaN or undefined.               *)
(***************************************************************************)
Undefined == [undef |-> TRUE]
NaN == [nan |-> TRUE]
Str(x) == [str |-> x]
Text(t) == [text |-> t]
Num(n) == [num |-> n]
Arr(a) == [arr |-> a]

EmptyObject == [k \in {} |-> Undefined]

\* o[k]
Get(o, k) == IF k \in DOMAIN o THEN o[k] ELSE Undefined

\* o[k] = v
Assign(o, k, v) == [x \in DOMAIN o \cup {k} |-> IF x = k THEN v ELSE o[x]]

\* {...a, ...b}
Spread(a, b) == [k \in DOMAIN a \cup DOMAIN b |-> IF k \in DOMAIN b THEN b[k] ELSE a[k]]

\* a value in a condition
Truthy(v) == v \notin {Undefined, NaN, Str(""), Text(<<>>), Num(0)}

\* String.prototype.split(sep)
RECURSIVE split(_, _)
split(text, sep) ==
  IF \E k \in 1..Len(text) : text[k] = sep
  THEN LET k == CHOOSE x \in 1..Len(text) :
                  text[x] = sep /\ \A y \in 1..(x - 1) : text[y] # sep
       IN <<SubSeq(text, 1, k - 1)>> \o split(SubSeq(text, k + 1, Len(text)), sep)
  ELSE <<text>>

Digits == <<"0", "1", "2", "3", "4", "5", "6", "7", "8", "9">>

IsDigit(c) == \E d \in 1..10 : Digits[d] = c

DigitValue(c) == (CHOOSE d \in 1..10 : Digits[d] = c) - 1

RECURSIVE DecimalValue(_)
DecimalValue(ds) ==
  IF ds = <<>> THEN 0 ELSE 10 * DecimalValue(SubSeq(ds, 1, Len(ds) - 1)) + DigitValue(ds[Len(ds)])

\* parseInt(text): an optional '-', then the digits up to the first
\* character that is not one; NaN when there is no digit
parseInt(text) ==
  LET negative == text # <<>> /\ Head(text) = "-"
      body == IF negative THEN Tail(text) ELSE text
      n == IF \E k \in 1..Len(body) : ~IsDigit(body[k])
           THEN (CHOOSE k \in 1..Len(body) :
                   ~IsDigit(body[k]) /\ \A j \in 1..(k - 1) : IsDigit(body[j])) - 1
           ELSE Len(body)
  IN IF n = 0 THEN NaN
     ELSE Num((IF negative THEN -1 ELSE 1) * DecimalValue(SubSeq(body, 1, n)))

\* the fields an argument can override, when it needs no conversion
PlainArgs == <<"dir", "output", "includedPathsFile", "excludedPathsFile", "sort">>

RECURSIVE AssignDefined(_, _, _)
AssignDefined(merged, args, keys) ==
  IF keys = <<>> THEN merged
  ELSE AssignDefined(IF Get(args, Head(keys)) # Undefined
                     THEN Assign(merged, Head(keys), args[Head(keys)]) ELSE merged,
                     args, Tail(keys))

\* the config wins over the arguments
mergeConfigWithArgsConfigFirst(config, args) ==
  LET m1 == AssignDefined(EmptyObject, args, PlainArgs)
      m2 == IF Get(args, "ignore") # Undefined
            THEN Assign(m1, "ignore",
                        IF "arr" \in DOMAIN args.ignore THEN args.ignore
                        ELSE Arr(split(args.ignore.text, ",")))
            ELSE m1
      m3 == IF Get(args, "maxFileSize") # Undefined
            THEN Assign(m2, "maxFileSize", parseInt(args.maxFileSize.text))
            ELSE m2
  IN Spread(m3, config)

mergeConfigWithArgs(config, args) ==
  LET merged == Spread(EmptyObject, config)
      m1 == AssignDefined(merged, args, PlainArgs)
      m2 == IF Get(args, "ignore") # Undefined
            THEN Assign(m1, "ignore",
                        IF "arr" \in DOMAIN args.ignore THEN args.ignore
                        ELSE Arr(split(args.ignore.text, ",")))
            ELSE m1
      m3 == IF Get(args, "maxFileSize") # Undefined
            THEN Assign(m2, "maxFileSize", parseInt(args.maxFileSize.text))
            ELSE m2
  IN m3

\* Possible config file names (in priority order)
CONFIG_FILES ==
  <<".code-atlas.json", ".code-atlasrc", ".code-atlasrc.json", "code-atlas.config.json",
    "code-atlas.config.js">>

\* what a path of the working directory holds: no file, a file that does
\* not parse, or a file with a config object (for package.json: with or
\* without a code-atlas section)
Absent == [absent |-> TRUE]
Invalid == [invalid |-> TRUE]
NoSection == [nosection |-> TRUE]
Holds(config) == [config |-> config]

existsSync(files, path) == path \in DOMAIN files /\ files[path] # Absent

\* [ok |-> TRUE, config] or [ok |-> FALSE, error]
loadConfigFile(files, filePath) ==
  IF files[filePath] \in {Invalid, NoSection}
  THEN [ok |-> FALSE, error |-> "Failed to load config"]
  ELSE [ok |-> TRUE, config |-> files[filePath].config]

Existing(files) == { i \in 1..Len(CONFIG_FILES) : existsSync(files, CONFIG_FILES[i]) }

findAndLoadConfigLast(files) ==
  IF Existing(files) = {} THEN [ok |-> TRUE, config |-> EmptyObject]
  ELSE loadConfigFile(files,
         CONFIG_FILES[CHOOSE i \in Existing(files) : \A j \in Existing(files) : j <= i])

findAndLoadConfig(files) ==
  IF Existing(files) = {} THEN [ok |-> TRUE, config |-> EmptyObject]
  ELSE loadConfigFile(files,
         CONFIG_FILES[CHOOSE i \in Existing(files) : \A j \in Existing(files) : i <= j])

\* {} for null
loadPackageJsonConfig(files) ==
  IF ~existsSync(files, "package.json") \/ files["package.json"] \in {Invalid, NoSection}
  THEN {}
  ELSE {files["package.json"].config}

\* second argument takes priority
mergeConfigs(base, override) ==
  Assign(Assign(Spread(base, override),
                "ignore",
                IF Truthy(Get(override, "ignore")) THEN override.ignore ELSE Get(base, "ignore")),
         "alwaysIncludeExtensions",
         IF Truthy(Get(override, "alwaysIncludeExtensions"))
         THEN override.alwaysIncludeExtensions ELSE Get(base, "alwaysIncludeExtensions"))

loadConfig(files, configPath) ==
  LET loaded == IF Truthy(configPath)
                THEN IF ~existsSync(files, configPath.str)
                     THEN [ok |-> FALSE, error |-> "Config file not found"]
                     ELSE loadConfigFile(files, configPath.str)
                ELSE findAndLoadConfig(files)
      packageConfig == loadPackageJsonConfig(files)
  IN IF ~loaded.ok THEN loaded
     ELSE IF packageConfig # {}
          THEN [ok |-> TRUE, config |-> mergeConfigs(Only(packageConfig), loaded.config)]
          ELSE loaded

\* The command line: the argument '-name=value' is the record of its name
\* and its value, and startsWith('-name=') holds of exactly the arguments
\* with that name ('-sortDirection=desc' does not start with '-sort=').
Arg(name, value) == [name |-> name, value |-> value]

\* args.find(arg => arg.startsWith(prefix))?.split('=')[1]
FlagValue(args, name) ==
  IF \E i \in 1..Len(args) : args[i].name = name
  THEN args[CHOOSE i \in 1..Len(args) :
              args[i].name = name /\ \A j \in 1..(i - 1) : args[j].name # name].value
  ELSE Undefined

\* the CLIArgs parsed from the command line
flags(args) ==
  [dir |-> FlagValue(args, "-dir"),
   output |-> FlagValue(args, "-output"),
   ignore |-> FlagValue(args, "-ignore"),
   includedPathsFile |-> FlagValue(args, "-included-paths-file"),
   excludedPathsFile |-> FlagValue(args, "-excluded-paths-file"),
   config |-> FlagValue(args, "-config"),
   maxFileSize |-> FlagValue(args, "-max-file-size"),
   sort |-> FlagValue(args, "-sort")]

\* the default ignore pattern of main
DefaultIgnore == Arr(<< <<"\\", ".", "g", "i", "t", ".", "*">> >>)

\* the options main builds: loadConfig, mergeConfigWithArgs, the defaults
options(files, args) ==
  LET config == loadConfig(files, flags(args).config)
  IN IF ~config.ok THEN config
     ELSE LET finalConfig == mergeConfigWithArgs(config.config, flags(args))
              defaults ==
                [dir |-> IF Truthy(Get(finalConfig, "dir")) THEN finalConfig["dir"]
                         ELSE Str("."),
                 output |-> IF Truthy(Get(finalConfig, "output")) THEN finalConfig["output"]
                            ELSE Str("codebase.md"),
                 ignore |-> IF Truthy(Get(finalConfig, "ignore")) THEN finalConfig["ignore"]
                            ELSE DefaultIgnore]
          IN [ok |-> TRUE, options |-> Spread(defaults, finalConfig)]

(***************************************************************************)
(* mergeConfigWithArgs, validateConfig and loadConfig called directly.     *)
(***************************************************************************)
\* the configs given to mergeConfigWithArgs
MergeConfigs ==
  { EmptyObject,
    [dir |-> Str("./src"), header |-> Str("# Docs")],
    [dir |-> Str("./src"), output |-> Str("docs.md"), ignore |-> Arr(<< <<"*", ".", "l">> >>),
     includedPathsFile |-> Str("in.txt"), excludedPathsFile |-> Str("ex.txt"),
     maxFileSize |-> Num(7), sort |-> Str("name"), sortDirection |-> Str("desc"),
     header |-> Str("# Docs"), alwaysIncludeExtensions |-> Arr(<< <<"e">> >>)] }

\* the values an argument can have, undefined apart
ArgValues(k) ==
  CASE k = "dir" -> {Str("./lib"), Str("")}
    [] k = "output" -> {Str("out.md")}
    [] k = "ignore" -> {Text(<<"*", ".", "t">>), Text(<<"*", ".", "t", ",", "z">>)}
    [] k = "includedPathsFile" -> {Str("i.txt")}
    [] k = "excludedPathsFile" -> {Str("e.txt")}
    [] k = "maxFileSize" -> {Text(<<"0">>), Text(<<"1", "2">>), Text(<<"-", "5">>)}
    [] k = "sort" -> {Str("type"), Str("invalid")}

ArgFields ==
  {"dir", "output", "ignore", "includedPathsFile", "excludedPathsFile", "maxFileSize", "sort"}

\* the CLIArgs objects: every field undefined or one of its values
MergeArgs ==
  LET Values(k) == ArgValues(k) \cup {Undefined}
  IN { [k \in ArgFields |->
          CASE k = "dir" -> dir
            [] k = "output" -> out
            [] k = "ignore" -> ignore
            [] k = "includedPathsFile" -> included
            [] k = "excludedPathsFile" -> excluded
            [] k = "maxFileSize" -> maxFileSize
            [] OTHER -> sort] :
         dir \in Values("dir"), out \in Values("output"), ignore \in Values("ignore"),
         included \in Values("includedPathsFile"), excluded \in Values("excludedPathsFile"),
         maxFileSize \in Values("maxFileSize"), sort \in Values("sort") }

\* the configs given to validateConfig, as options records
ValidateConfigs ==
  { [DefaultOptions EXCEPT !.maxFileSize = m, !.sort = s, !.sortDirection = d] :
      m \in {{}, {0}, {1}, {-1}},
      s \in SortMethods \cup {"undefined", "", "invalid"},
      d \in SortDirections \cup {"undefined", "", "up"} }

\* what a config file of the given name can hold
FileConfigs(name) ==
  { [output |-> Str(name)],
    [output |-> Str(name), sort |-> Str("size"), ignore |-> Arr(<<>>), maxFileSize |-> Num(0)] }

PackageConfigs ==
  { [output |-> Str("package.json"), sort |-> Str("type"), header |-> Str("# Docs"),
     ignore |-> Arr(<< <<"z">> >>), maxFileSize |-> Num(7),
     alwaysIncludeExtensions |-> Arr(<< <<"e">> >>)] }

ConfigPaths == {"my-config.json"}

\* the working directories: each config file absent, unparsable or holding
\* a config; package.json absent, unparsable, without or with a section
WorkingDirs ==
  LET Contents(n) == {Absent, Invalid} \cup { Holds(c) : c \in FileConfigs(n) }
  IN { [n \in { CONFIG_FILES[i] : i \in 1..Len(CONFIG_FILES) } \cup ConfigPaths
                 \cup {"package.json"} |->
          CASE n = CONFIG_FILES[1] -> c1
            [] n = CONFIG_FILES[2] -> c2
            [] n = CONFIG_FILES[3] -> c3
            [] n = CONFIG_FILES[4] -> c4
            [] n = CONFIG_FILES[5] -> c5
            [] n = "package.json" -> package
            [] OTHER -> custom] :
         c1 \in Contents(CONFIG_FILES[1]), c2 \in Contents(CONFIG_FILES[2]),
         c3 \in Contents(CONFIG_FILES[3]), c4 \in Contents(CONFIG_FILES[4]),
         c5 \in Contents(CONFIG_FILES[5]),
         package \in {Absent, Invalid, NoSection} \cup { Holds(c) : c \in PackageConfigs },
         custom \in {Absent} \cup UNION { { Holds(c) : c \in FileConfigs(n) } : n \in ConfigPaths } }

ConfigInit ==
  /\ result = NoResult
  /\ fs = FileSystem({}, <<>>, <<>>, {})
  /\ opts = DefaultOptions
  /\ pc = "call"
  /\ exitCode = {}
  /\ pass = "none"
  /\ stack = <<>>
  /\ wpc = "idle"
  /\ depthOpen = NoDepthOpen
  /\ visits = <<>>
  /\ active = {}
  /\ output = <<>>
  /\ includedPaths = <<>>
  /\ excludedPaths = <<>>
  /\ sinkFiles = NoSinkFiles
  /\ calls = <<>>

\* mergeConfigWithArgs(config, args)
CallMergeConfigWithArgs ==
  /\ pc = "call"
  /\ \E config \in MergeConfigs, args \in MergeArgs :
       result' = [fn |-> "mergeConfigWithArgs", config |-> config, args |-> args,
                  value |-> mergeConfigWithArgs(config, args)]
  /\ pc' = "called"
  /\ UNCHANGED <<fs, opts, exitCode, pass, stack, wpc, depthOpen, visits, active,
                 output, includedPaths, excludedPaths, sinkFiles, calls>>

\* validateConfig(config)
CallValidateConfig ==
  /\ pc = "call"
  /\ \E config \in ValidateConfigs :
       result' = [fn |-> "validateConfig", config |-> config,
                  threw |-> validateConfigThrows(config)]
  /\ pc' = "called"
  /\ UNCHANGED <<fs, opts, exitCode, pass, stack, wpc, depthOpen, visits, active,
                 output, includedPaths, excludedPaths, sinkFiles, calls>>

\* loadConfig(configPath) in a working directory
CallLoadConfig ==
  /\ pc = "call"
  /\ \E files \in WorkingDirs, configPath \in {Undefined, Str("")} \cup { Str(n) : n \in ConfigPaths } :
       result' = [fn |-> "loadConfig", files |-> files, configPath |-> configPath,
                  value |-> loadConfig(files, configPath)]
  /\ pc' = "called"
  /\ UNCHANGED <<fs, opts, exitCode, pass, stack, wpc, depthOpen, visits, active,
                 output, includedPaths, excludedPaths, sinkFiles, calls>>

\* the arguments of the command lines
CliArgs ==
  { Arg("-dir", Str("./lib")), Arg("-sort", Str("size")), Arg("-sort", Str("")),
    Arg("-sortDirection", Str("desc")), Arg("-sortDirection", Str("asc")),
    Arg("-config", Str("my-config.json")), Arg("-max-file-size", Text(<<"1">>)) }

\* the command lines: at most MaxArgs arguments
CommandLines == UNION { [1..n -> CliArgs] : n \in 0..MaxArgs }

\* the working directories of the command lines: at most the first config
\* file, the -config file and package.json are there
CliDirs ==
  { files \in WorkingDirs :
      \A i \in 2..Len(CONFIG_FILES) : files[CONFIG_FILES[i]] = Absent }

\* main up to the options it validates
MainOptions ==
  /\ pc = "call"
  /\ \E files \in CliDirs, args \in CommandLines :
       result' = [fn |-> "options", files |-> files, args |-> args,
                  value |-> options(files, args)]
  /\ pc' = "called"
  /\ UNCHANGED <<fs, opts, exitCode, pass, stack, wpc, depthOpen, visits, active,
                 output, includedPaths, excludedPaths, sinkFiles, calls>>

ConfigNext ==
  \/ CallMergeConfigWithArgs
  \/ CallValidateConfig
  \/ CallLoadConfig
  \/ MainOptions

SpecConfig == ConfigInit /\ [][ConfigNext]_vars

(***************************************************************************)
(* walkDir called directly on a readable tree, with main's two callbacks   *)
(* (the tree pass) and with writeFileContent's onFile and no onDir (the    *)
(* content pass).                                                          *)
(***************************************************************************)
\* the options of the direct walks
WalkRuns ==
  {DefaultOptions, [DefaultOptions EXCEPT !.sort = "name", !.sortDirection = "desc"]}
  \cup IgnoreRuns

WalkInit ==
  /\ \E o \in WalkRuns, T \in Trees, p \in {"tree", "content"} :
       /\ opts = o
       /\ fs = FileSystem(T, [x \in T |-> 1], [x \in T |-> 1], {})
       /\ pc = p
       /\ pass = p
       /\ stack = << Frame(o.dir, o.dir, o.ignore, 0,
                           IF p = "tree" THEN NoOptions
                           ELSE [sort |-> o.sort, sortDirection |-> o.sortDirection]) >>
  /\ wpc = "readdir"
  /\ depthOpen = NoDepthOpen
  /\ exitCode = {}
  /\ visits = <<>>
  /\ active = {}
  /\ output = <<>>
  /\ includedPaths = <<>>
  /\ excludedPaths = <<>>
  /\ sinkFiles = NoSinkFiles
  /\ calls = <<>>
  /\ result = NoResult

WalkNext ==
  \/ ReadDir
  \/ CallOnDir
  \/ DescendAfterOnDir
  \/ DescendNoOnDir
  \/ CallOnFile
  \/ NextEntry
  \/ WalkReturn
  \/ CallbackReturn
  \/ OnFileRead

SpecWalk == WalkInit /\ [][WalkNext]_vars

(***************************************************************************)
(* writeFileContent called directly on a tree in which one directory       *)
(* cannot be listed, one file cannot be read, or one file is a dangling    *)
(* link; the output and the two path-list files exist before the call.     *)
(***************************************************************************)
\* the options of the calls: both path lists are to be saved
FailRuns ==
  { [o EXCEPT !.includedPathsFile = {"included.txt"}, !.excludedPathsFile = {"excluded.txt"}] :
      o \in { DefaultOptions,
              [DefaultOptions EXCEPT !.maxFileSize = {1}],
              [DefaultOptions EXCEPT !.sort = "size"] } }

\* what main wrote to the output before it calls writeFileContent
OutputBefore == << [t |-> "header"], [t |-> "content"] >>

FailInit ==
  /\ \E o \in FailRuns, T \in Trees :
       \E bad \in {{}} \cup { {p} : p \in T \cup {<<>>} } : \E links \in SUBSET bad :
         /\ opts = o
         /\ fs = Dangle(FileSystem(T, [r \in T |-> IF basename(r) = LargeFile THEN 2 ELSE 1],
                                    [r \in T |-> 1], bad), links)
         /\ stack = << Frame(o.dir, o.dir, o.ignore, 0,
                             [sort |-> o.sort, sortDirection |-> o.sortDirection]) >>
  /\ sinkFiles = [p \in SinkPaths |-> {OldText}]
  /\ output = OutputBefore
  /\ pc = "content"
  /\ exitCode = {}
  /\ pass = "content"
  /\ wpc = "readdir"
  /\ depthOpen = NoDepthOpen
  /\ visits = <<>>
  /\ active = {}
  /\ includedPaths = <<>>
  /\ excludedPaths = <<>>
  /\ calls = <<>>
  /\ result = NoResult

FailNext ==
  \/ ReadDir
  \/ DescendNoOnDir
  \/ CallOnFile
  \/ NextEntry
  \/ WalkReturn
  \/ OnFileStat
  \/ OnFileRead
  \/ WriteFileContentReturn

SpecFail == FailInit /\ [][FailNext]_vars

(***************************************************************************)
(* Runs of the CLI with valid and invalid options, over an output file and *)
(* path-list files left by an earlier run.                                 *)
(***************************************************************************)
\* what an earlier run left in the output file
OutputLeft == << [t |-> "left"] >>

\* two small trees: one file; a directory with a file
RunTrees == { { <<LargeFile>> }, { << <<"z">> >>, << <<"z">>, LargeFile >> } }

RunInit ==
  /\ \E o \in ValidateConfigs, T \in RunTrees, bad \in {{}, {<<LargeFile>>}},
        left \in {<<>>, OutputLeft} :
       /\ opts = [o EXCEPT !.includedPathsFile = {"included.txt"},
                           !.excludedPathsFile = {"excluded.txt"}]
       /\ fs = FileSystem(T, [r \in T |-> 2], [r \in T |-> 1], bad)
       /\ output = left
  /\ sinkFiles = [p \in SinkPaths |-> {OldText}]
  /\ pc = "start"
  /\ exitCode = {}
  /\ pass = "none"
  /\ stack = <<>>
  /\ wpc = "idle"
  /\ depthOpen = NoDepthOpen
  /\ visits = <<>>
  /\ active = {}
  /\ includedPaths = <<>>
  /\ excludedPaths = <<>>
  /\ calls = <<>>
  /\ result = NoResult

SpecRun == RunInit /\ [][Next]_vars

(***************************************************************************)
(* Properties.                                                             *)
(***************************************************************************)
\* writeFileContent has resolved
ContentResolved == pass = "content" /\ wpc \in {"resolved", "returned"}

\* the files of the tree, as full paths
Files == { p \in DOMAIN fs : ~fs[p].isDir }

Occurrences(x, s) == Cardinality({ i \in 1..Len(s) : s[i] = x })

InBoth == includedPaths \o excludedPaths

\* the directories between the scan root and p, and p itself
SelfAndAncestors(p) == { SubSeq(p, 1, k) : k \in (Len(RootDir) + 1)..Len(p) }

Pruned(p) == \E q \in SelfAndAncestors(p) : shouldIgnore(q, opts.ignore)

NoCommonPath ==
  \A i \in 1..Len(includedPaths) : \A j \in 1..Len(excludedPaths) :
    includedPaths[i] # excludedPaths[j]

\* C1 as stated: after writeFileContent resolves the two lists are disjoint
\* and every file whose own path matches no ignore pattern is in exactly one
\* of them, once.
C1_AsStated ==
  ContentResolved =>
    /\ NoCommonPath
    /\ \A p \in Files :
         ~shouldIgnore(p, opts.ignore) => Occurrences(relative(RootDir, p), InBoth) = 1

\* C1 amended: after writeFileContent resolves the two lists are disjoint and
\* every file such that neither its path nor the path of one of its ancestor
\* directories below the scan root matches an ignore pattern is in exactly
\* one of them, once.
C1_DisjointAndComplete ==
  ContentResolved =>
    /\ NoCommonPath
    /\ \A p \in Files :
         ~Pruned(p) => Occurrences(relative(RootDir, p), InBoth) = 1

C1_Witness ==
  /\ ContentResolved
  /\ excludedPaths # <<>>
  /\ \E p \in Files : Pruned(p) /\ ~shouldIgnore(p, opts.ignore)

\* the lower-cased characters after the final '.' of a name, none without '.'
AfterFinalDot(name) ==
  IF LastDot(name) = 0 THEN <<>>
  ELSE toLowerCase(SubSeq(name, LastDot(name) + 1, Len(name)))

\* the files onFile was called for in the content pass, as visit indices
ContentFiles == { i \in 1..Len(visits) : visits[i].pass = "content" /\ ~visits[i].isDir }

IsIn(x, s) == \E i \in 1..Len(s) : s[i] = x

HasEntry(rel) ==
  \E i \in 1..Len(output) : output[i].t = "heading" /\ output[i].path = rel

\* C2: once writeFileContent has resolved, a visited file is in excludedPaths
\* with no content emitted iff maxFileSize is set, its size is strictly
\* greater and no allowlist entry (lower-cased, a leading '.' removed) equals
\* its lower-cased extension; every other visited file is in includedPaths
\* with its content emitted.
C2_SizeLimit ==
  (ContentResolved /\ ~HasTemplate) =>
    \A i \in ContentFiles :
      LET v == visits[i]
          allowed == \E k \in 1..Len(opts.alwaysIncludeExtensions) :
                       AllowEntry(opts.alwaysIncludeExtensions[k])
                         = AfterFinalDot(basename(v.fullPath))
          over == /\ opts.maxFileSize # {}
                  /\ fs[v.fullPath].size > Only(opts.maxFileSize)
                  /\ ~allowed
      IN IF over
         THEN IsIn(v.relPath, excludedPaths) /\ ~IsIn(v.relPath, includedPaths)
              /\ ~HasEntry(v.relPath)
         ELSE IsIn(v.relPath, includedPaths) /\ ~IsIn(v.relPath, excludedPaths)
              /\ HasEntry(v.relPath)

SameListing(i, j) ==
  /\ visits[i].pass = visits[j].pass
  /\ dirname(visits[i].fullPath) = dirname(visits[j].fullPath)

\* C3: under every sort method and direction, in one listing no file is
\* visited before a directory.
C3_DirectoriesFirst ==
  \A i, j \in 1..Len(visits) :
    (i < j /\ SameListing(i, j)) => ~(~visits[i].isDir /\ visits[j].isDir)

\* a directory visited before a file whose name sorts before the directory's
C3_Witness ==
  /\ opts.sort = "size"
  /\ opts.sortDirection = "desc"
  /\ \E i, j \in 1..Len(visits) :
       /\ i < j
       /\ visits[i].pass = "content"
       /\ SameListing(i, j)
       /\ visits[i].isDir
       /\ ~visits[j].isDir
       /\ localeCompare(basename(visits[j].fullPath), basename(visits[i].fullPath)) < 0
       /\ fs[visits[j].fullPath].size > fs[visits[i].fullPath].size

\* a callback has just been called for the entry the loop is at
JustCalled == wpc \in {"ondir", "onfile"}

\* the entry of walkDir call number k of the recursion has a later sibling
HasLaterSibling(k) == stack[k].i < Len(stack[k].sortedEntries)

\* C4: when a callback is called for an entry at depth d, depthOpen[l] is
\* true, for every l < d, exactly when the ancestor at depth l is not the
\* last entry of its listing; the tree line has d indent segments, a bar at
\* level l exactly then, the last/not-last glyph, the base name, and '/' for
\* a directory.
C4_OpenState ==
  JustCalled =>
    LET v == visits[Len(visits)]
        d == v.depth
    IN /\ Len(stack) = d + 1
       /\ \A l \in 0..(d - 1) : IsOpen(v.open, l) <=> HasLaterSibling(l + 1)
       /\ pass = "tree" =>
            output[Len(output)] =
              [t |-> "tree",
               indent |-> [l \in 1..d |-> IF HasLaterSibling(l) THEN "bar" ELSE "blank"],
               pipe |-> IF HasLaterSibling(d + 1) THEN "tee" ELSE "last",
               name |-> Entry.name,
               slash |-> Entry.isDir]

C4_Witness ==
  /\ JustCalled
  /\ pass = "tree"
  /\ Top.depth >= 1
  /\ HasLaterSibling(1)
  /\ output[Len(output)].indent[1] = "bar"

\* the visits of the children of the directory the innermost call lists
ListingVisits ==
  { i \in 1..Len(visits) :
      visits[i].pass = pass /\ dirname(visits[i].fullPath) = Top.dirPath }

\* the loop of the innermost walkDir call is over
ListingDone == wpc = "loop" /\ Top.i > Len(Top.sortedEntries)

\* C5: a child that has a later sibling visited has isLast = false; when a
\* listing is finished every non-ignored child was visited and the child
\* visited last, and only it, has isLast = true.
C5_OneLast ==
  /\ \A i, j \in 1..Len(visits) : (i < j /\ SameListing(i, j)) => ~visits[i].isLast
  /\ ListingDone =>
       /\ { visits[i].fullPath : i \in ListingVisits } =
            { p \in DOMAIN fs : /\ dirname(p) = Top.dirPath
                                /\ ~shouldIgnore(p, opts.ignore) }
       /\ \A i \in ListingVisits :
            visits[i].isLast <=> (\A j \in ListingVisits : j <= i)

C5_Witness ==
  /\ ListingDone
  /\ Cardinality(ListingVisits) >= 2
  /\ \E p \in DOMAIN fs : dirname(p) = Top.dirPath /\ shouldIgnore(p, opts.ignore)

\* the number of path separators of a relative path
Separators(rel) ==
  Cardinality({ i \in 1..Len(PathString(rel)) : PathString(rel)[i] = "/" })

\* C6: the depth given for an entry is the number of path separators of its
\* path relative to the scan root.
C6_Depth ==
  \A i \in 1..Len(visits) : visits[i].depth = Separators(visits[i].relPath)

C6_Witness ==
  \E i \in 1..Len(visits) : visits[i].cb /\ visits[i].depth = 2

Inside(i, j) ==
  /\ visits[i].pass = visits[j].pass
  /\ visits[i].fullPath # visits[j].fullPath
  /\ IsPrefix(visits[i].fullPath, visits[j].fullPath)

\* C7: at most one callback is in progress, and it is the one of the entry
\* visited last (every earlier callback has completed); entries are visited
\* in pre-order: an entry inside a directory comes after the directory, and
\* between the directory and an entry inside it only entries inside it are
\* visited.
C7_Sequential ==
  /\ Cardinality(active) <= 1
  /\ \A a \in active : a[1] = Len(visits)
  /\ \A i, j \in 1..Len(visits) :
       Inside(i, j) =>
         /\ i < j
         /\ \A k \in (i + 1)..(j - 1) : Inside(i, k)

C7_Witness ==
  /\ active # {}
  /\ \E i \in 1..(Len(visits) - 1) :
       /\ visits[i].cb
       /\ visits[i].isDir
       /\ Inside(i, Len(visits))
       /\ visits[Len(visits)].cb

\* the directories that cannot be listed
Unreadable == { p \in DOMAIN fs : fs[p].isDir /\ ~fs[p].ok }

\* C8: when the listing of a directory fails walkDir rejects, and the entry
\* visited last stays the last one: no callback is called for an entry of
\* the directory or for any later entry, and the content pass never starts;
\* for a failing scan root no callback is called at all; the CLI ends with
\* exit code 1.
C8_ListingFailure ==
  \A D \in Unreadable :
    /\ \A i \in 1..Len(visits) : visits[i].fullPath = D => i = Len(visits)
    /\ \A i \in 1..Len(visits) : ~IsPrefix(D, visits[i].fullPath) \/ visits[i].fullPath = D
    /\ (stack # <<>> /\ Top.dirPath = D /\ wpc # "readdir") => wpc = "rejected"
    /\ D = RootDir => visits = <<>>
    /\ pass # "content"
    /\ pc # "done"
    /\ pc = "exit" => exitCode = {1}

C8_Witness ==
  /\ pc = "exit"
  /\ exitCode = {1}
  /\ \E D \in Unreadable : D # RootDir /\ visits # <<>> /\ visits[Len(visits)].fullPath = D

\* the template with each placeholder replaced by the given text as it is
LiteralFill(tpl, path, ext, content) ==
  Flatten([i \in 1..Len(tpl) |->
             IF tpl[i] = PathPlaceholder THEN path
             ELSE IF tpl[i] = ExtensionPlaceholder THEN ext
             ELSE IF tpl[i] = ContentPlaceholder THEN content
             ELSE <<tpl[i]>>])

\* C9: the text appended for an included file is the template with every
\* placeholder replaced by the relative path, the lower-cased extension and
\* the raw content, each inserted as it is.
C9_LiteralTemplate ==
  \A i \in 1..Len(output) :
    output[i].t = "template" =>
      \E k \in ContentFiles :
        output[i].text =
          LiteralFill(Only(opts.fileTemplate), PathString(visits[k].relPath),
                      extension(visits[k].fullPath), fs[visits[k].fullPath].content)
            \o <<"\n", "\n">>

\* C10: the extension of the code fence is the lower-cased run of characters
\* after the final '.' of the file name, empty when the name has no '.'.
C10_Extension ==
  \A i \in 1..(Len(output) - 1) :
    (output[i].t = "heading" /\ output[i + 1].t = "fence") =>
      output[i + 1].extension = AfterFinalDot(basename(output[i].path))

\* the sort method and direction walkDir was given for visit i: none in
\* the tree pass, the options' in the content pass; 'name' and 'asc' by default
Method(i) ==
  IF visits[i].pass = "tree" \/ opts.sort = "undefined" THEN "name" ELSE opts.sort

Direction(i) ==
  IF visits[i].pass = "tree" \/ opts.sortDirection = "undefined"
  THEN "asc" ELSE opts.sortDirection

Name(i) == basename(visits[i].fullPath)

\* x is before y in the direction of visit i, for a comparison result c of
\* x with y
Before(c, i) == IF Direction(i) = "asc" THEN c < 0 ELSE c > 0

NotAfter(c, i) == IF Direction(i) = "asc" THEN c <= 0 ELSE c >= 0

BothDirs(i, j) == i < j /\ SameListing(i, j) /\ visits[i].isDir /\ visits[j].isDir

BothFiles(i, j) == i < j /\ SameListing(i, j) /\ ~visits[i].isDir /\ ~visits[j].isDir

\* C11: under every sort method, the directories of one listing are visited
\* in name order: ascending for asc, descending for desc.
C11_DirectoriesByName ==
  \A i, j \in 1..Len(visits) :
    BothDirs(i, j) => Before(localeCompare(Name(i), Name(j)), i)

\* C12: with sort = name or no sort given, the files of every listing are
\* visited in ascending name order for asc and in descending name order for
\* desc.
C12_NameOrder ==
  \A i, j \in 1..Len(visits) :
    (BothFiles(i, j) /\ Method(i) = "name") =>
      Before(localeCompare(Name(i), Name(j)), i)

\* two files of a nested listing visited in descending name order
C12_Witness ==
  /\ opts.sort = "name"
  /\ opts.sortDirection = "desc"
  /\ \E i, j \in 1..Len(visits) :
       /\ BothFiles(i, j)
       /\ visits[i].pass = "content"
       /\ visits[i].depth >= 1
       /\ localeCompare(Name(i), Name(j)) > 0

\* C13: with sort = type the files of one listing are ordered by their
\* lower-cased extension (the characters after the final '.'), files with
\* the same lower-cased extension by name; desc gives the reverse order.
C13_TypeOrder ==
  \A i, j \in 1..Len(visits) :
    (BothFiles(i, j) /\ Method(i) = "type") =>
      LET byExtension == localeCompare(AfterFinalDot(Name(i)), AfterFinalDot(Name(j)))
      IN \/ Before(byExtension, i)
         \/ byExtension = 0 /\ Before(localeCompare(Name(i), Name(j)), i)

\* the size or the modification time the method of visit i sorts by
SortKey(i, k) ==
  IF Method(i) = "size" THEN fs[visits[k].fullPath].size ELSE fs[visits[k].fullPath].mtime

\* C14: with sort = size (modified) the files of one listing are visited in
\* non-decreasing size (modification time) for asc and in non-increasing
\* order for desc.
C14_StatOrder ==
  \A i, j \in 1..Len(visits) :
    (BothFiles(i, j) /\ Method(i) \in {"size", "modified"}) =>
      NotAfter(SortKey(i, i) - SortKey(i, j), i)

\* a larger file visited before a smaller one whose name sorts first
C14_Witness ==
  /\ opts.sort = "size"
  /\ opts.sortDirection = "desc"
  /\ \E i, j \in 1..Len(visits) :
       /\ BothFiles(i, j)
       /\ visits[i].pass = "content"
       /\ fs[visits[i].fullPath].size > fs[visits[j].fullPath].size
       /\ localeCompare(Name(j), Name(i)) < 0

\* the tree-pass visits, and those of files
TreeVisits == { i \in 1..Len(visits) : visits[i].pass = "tree" }

TreeFileVisits == { i \in TreeVisits : ~visits[i].isDir }

\* the lines of the tree written for files
TreeFileLines == { k \in 1..Len(output) : output[k].t = "tree" /\ ~output[k].slash }

\* C15: once writeFileContent has resolved, the tree has a line for every
\* file and directory that is not ignored, and the files with a tree line
\* are exactly those of includedPaths and excludedPaths together, whatever
\* their size.
C15_TreeListsAll ==
  ContentResolved =>
    /\ { visits[i].fullPath : i \in TreeVisits } =
         { p \in DOMAIN fs \ {RootDir} : ~Pruned(p) }
    /\ Cardinality(TreeFileLines) = Cardinality(TreeFileVisits)
    /\ { visits[i].relPath : i \in TreeFileVisits } = { InBoth[k] : k \in 1..Len(InBoth) }

\* a file over the size limit with a tree line, next to an ignored entry
C15_Witness ==
  /\ ContentResolved
  /\ \E i \in TreeFileVisits : IsIn(visits[i].relPath, excludedPaths)
  /\ \E p \in DOMAIN fs : p # RootDir /\ Pruned(p)

\* the content-pass visit of the file with relative path rel
VisitOf(rel) == CHOOSE i \in ContentFiles : visits[i].relPath = rel

IsEntryChunk(c) == c.t \in {"content", "heading", "fence", "template"}

\* C16: the header and the tree lines are never written after the Content
\* heading or an entry; the document of a successful run is the header, one
\* tree line per tree-pass visit in visit order, the Content heading, and
\* then one entry per path of includedPaths, in that order, none for an
\* excluded or an ignored file.
C16_Document ==
  /\ \A i, j \in 1..Len(output) : (i < j /\ IsEntryChunk(output[i])) => IsEntryChunk(output[j])
  /\ pc = "done" =>
       LET n == Cardinality(TreeVisits)
           rest == SubSeq(output, n + 3, Len(output))
       IN /\ Len(output) >= n + 2
          /\ output[1].t = "header"
          /\ \A k \in 1..n :
               /\ visits[k].pass = "tree"
               /\ output[k + 1].t = "tree"
               /\ output[k + 1].name = basename(visits[k].fullPath)
               /\ Len(output[k + 1].indent) = visits[k].depth
          /\ output[n + 2].t = "content"
          /\ IF HasTemplate
             THEN /\ Len(rest) = Len(includedPaths)
                  /\ \A m \in 1..Len(includedPaths) :
                       rest[m] = Emission(visits[VisitOf(includedPaths[m])])[1]
             ELSE /\ Len(rest) = 2 * Len(includedPaths)
                  /\ \A m \in 1..Len(includedPaths) :
                       /\ rest[2 * m - 1] = [t |-> "heading", path |-> includedPaths[m]]
                       /\ rest[2 * m].t = "fence"
          /\ \A m \in 1..Len(includedPaths) :
               /\ ~IsIn(includedPaths[m], excludedPaths)
               /\ ~Pruned(RootDir \o includedPaths[m])
               /\ \A k \in 1..Len(includedPaths) : includedPaths[k] = includedPaths[m] => k = m

\* a finished document with two tree lines, an entry and an excluded file
C16_Witness ==
  /\ pc = "done"
  /\ Cardinality(TreeVisits) >= 2
  /\ includedPaths # <<>>
  /\ excludedPaths # <<>>

\* C20: no directory's path is ever in includedPaths or excludedPaths, also
\* with maxFileSize configured.
C20_OnlyFiles ==
  \A k \in 1..Len(InBoth) : ~fs[RootDir \o InBoth[k]].isDir

\* a directory larger than maxFileSize was walked and a file was excluded
C20_Witness ==
  /\ ContentResolved
  /\ opts.maxFileSize # {}
  /\ excludedPaths # <<>>
  /\ \E i \in 1..Len(visits) :
       /\ visits[i].pass = "content"
       /\ visits[i].isDir
       /\ fs[visits[i].fullPath].size > Only(opts.maxFileSize)

\* the lines of a text: the runs of characters between its newlines
RECURSIVE SplitLines(_)
SplitLines(text) ==
  IF \E k \in 1..Len(text) : text[k] = "\n"
  THEN LET k == CHOOSE x \in 1..Len(text) :
                  text[x] = "\n" /\ \A y \in 1..(x - 1) : text[y] # "\n"
       IN <<SubSeq(text, 1, k - 1)>> \o SplitLines(SubSeq(text, k + 1, Len(text)))
  ELSE <<text>>

\* the file holds the paths and nothing else, one per line, in order
HoldsPaths(file, paths) ==
  /\ file # {}
  /\ IF paths = <<>> THEN Only(file) = <<>>
     ELSE SplitLines(Only(file)) = [k \in 1..Len(paths) |-> PathString(paths[k])]

\* C17: a path-list file that is not configured is never created or
\* modified; when writeFileContent returns, a configured one holds exactly
\* its list, one path per line in traversal order, whatever it held before.
C17_PathSinks ==
  [][/\ \A p \in SinkPaths :
          (opts.includedPathsFile # {p} /\ opts.excludedPathsFile # {p})
            => sinkFiles'[p] = sinkFiles[p]
     /\ wpc' = "returned" =>
          /\ opts.includedPathsFile = {"included.txt"}
               => HoldsPaths(sinkFiles'["included.txt"], includedPaths')
          /\ opts.excludedPathsFile = {"excluded.txt"}
               => HoldsPaths(sinkFiles'["excluded.txt"], excludedPaths')]_vars

\* the included paths replaced the old text of their file; the file for the
\* excluded paths, not configured, still holds its old text
C17_Witness ==
  /\ wpc = "returned"
  /\ opts.includedPathsFile = {"included.txt"}
  /\ opts.excludedPathsFile = {}
  /\ Len(includedPaths) >= 2
  /\ excludedPaths # <<>>
  /\ sinkFiles["excluded.txt"] = {OldText}
  /\ HoldsPaths(sinkFiles["included.txt"], includedPaths)

\* C18: the file holds what it held before the first call followed by the
\* data of the appendToFile calls in call order, and writeFileContent only
\* adds after that: nothing already in the output is removed or changed.
C18_AppendOnly ==
  /\ pc = "append" => output = Flatten(calls)
  /\ IsPrefix(Flatten(calls), output)

\* writeFileContent has added an entry after old content and two appends
C18_Witness ==
  /\ pc = "content"
  /\ Len(calls) = 3
  /\ calls[1] # <<>>
  /\ calls[2] # <<>>
  /\ calls[3] # <<>>
  /\ calls[2] # calls[3]
  /\ Len(output) > Len(Flatten(calls))

Reverse(s) == [k \in 1..Len(s) |-> s[Len(s) + 1 - k]]

JoinCommas(patterns) ==
  Flatten([i \in 1..Len(patterns) |->
             IF i = 1 THEN patterns[i] ELSE <<",">> \o patterns[i]])

\* the decimal digits of a natural number
RECURSIVE DecimalString(_)
DecimalString(n) ==
  IF n < 10 THEN <<Digits[n + 1]>> ELSE DecimalString(n \div 10) \o <<Digits[(n % 10) + 1]>>

\* the text is the decimal notation of the number
IsDecimalOf(text, n) ==
  IF n < 0 THEN text = <<"-">> \o DecimalString(-n) ELSE text = DecimalString(n)

\* the value v is the one argument a stands for: the patterns between the
\* commas for ignore, the number written for maxFileSize, else a itself
Denotes(k, a, v) ==
  CASE k = "ignore" ->
         /\ DOMAIN v = {"arr"}
         /\ JoinCommas(v.arr) = a.text
         /\ \A i \in 1..Len(v.arr) : \A j \in 1..Len(v.arr[i]) : v.arr[i][j] # ","
    [] k = "maxFileSize" -> DOMAIN v = {"num"} /\ IsDecimalOf(a.text, v.num)
    [] OTHER -> v = a

\* C21: for each of dir, output, ignore, includedPathsFile,
\* excludedPathsFile, maxFileSize and sort the result of mergeConfigWithArgs
\* holds the argument's value when the argument is defined and the config's
\* (or no value, when the config has none) when it is undefined; every other
\* field of the config is carried over and no field is added.
C21_ArgsPriority ==
  result.fn = "mergeConfigWithArgs" =>
    LET c == result.config
        a == result.args
        v == result.value
    IN /\ \A k \in ArgFields :
            IF a[k] # Undefined
            THEN k \in DOMAIN v /\ Denotes(k, a[k], v[k])
            ELSE IF k \in DOMAIN c THEN k \in DOMAIN v /\ v[k] = c[k]
                 ELSE k \notin DOMAIN v
       /\ \A k \in (DOMAIN c \cup DOMAIN v) \ ArgFields :
            k \in DOMAIN c /\ k \in DOMAIN v /\ v[k] = c[k]

\* arguments override ignore and maxFileSize of a config, which keeps its
\* dir, its sortDirection and its header
C21_Witness ==
  /\ result.fn = "mergeConfigWithArgs"
  /\ result.args["dir"] = Undefined
  /\ result.args["ignore"] = Text(<<"*", ".", "t", ",", "z">>)
  /\ result.args["maxFileSize"] = Text(<<"1", "2">>)
  /\ DOMAIN result.config = DOMAIN result.value
  /\ result.value["dir"] = Str("./src")
  /\ result.value["maxFileSize"] = Num(12)
  /\ result.value["ignore"] = Arr(<< <<"*", ".", "t">>, <<"z">> >>)
  /\ result.value["sortDirection"] = Str("desc")
  /\ result.value["header"] = Str("# Docs")

\* C22: validateConfig throws exactly when maxFileSize is negative, or sort
\* is set to a value other than name, size, modified and type, or
\* sortDirection is set to a value other than asc and desc.
C22_Validate ==
  result.fn = "validateConfig" =>
    (result.threw <=>
       \/ result.config.maxFileSize # {} /\ Only(result.config.maxFileSize) < 0
       \/ result.config.sort # "undefined" /\ result.config.sort \notin SortMethods
       \/ result.config.sortDirection # "undefined"
            /\ result.config.sortDirection \notin SortDirections)

\* C24: with no config path given, loadConfig fails or returns, field by
\* field, the value of the first existing file of CONFIG_FILES for the
\* fields that file sets and the value of the package.json section (none
\* without a section) for the others, and it fails only when that first
\* file does not parse; with a config path given that does not exist it
\* fails with 'Config file not found'.
C24_LoadConfig ==
  result.fn = "loadConfig" =>
    LET files == result.files
        v == result.value
        section == loadPackageJsonConfig(files)
        first == CHOOSE i \in Existing(files) : \A j \in Existing(files) : i <= j
    IN IF Truthy(result.configPath)
       THEN ~existsSync(files, result.configPath.str) =>
              v = [ok |-> FALSE, error |-> "Config file not found"]
       ELSE IF Existing(files) # {} /\ files[CONFIG_FILES[first]] = Invalid
            THEN ~v.ok
            ELSE LET chosen == IF Existing(files) = {} THEN EmptyObject
                               ELSE files[CONFIG_FILES[first]].config
                 IN /\ v.ok
                    /\ \A k \in DOMAIN chosen \cup DOMAIN v.config
                                \cup UNION { DOMAIN c : c \in section } :
                         Get(v.config, k) =
                           IF k \in DOMAIN chosen THEN chosen[k]
                           ELSE IF section # {} THEN Get(Only(section), k)
                           ELSE Undefined

\* the second file of the list is the first that exists, a later one
\* exists too, and package.json gives the fields the second does not set
C24_Witness ==
  /\ result.fn = "loadConfig"
  /\ result.configPath = Undefined
  /\ result.files[CONFIG_FILES[1]] = Absent
  /\ result.files[CONFIG_FILES[2]] = Holds([output |-> Str(CONFIG_FILES[2])])
  /\ result.files[CONFIG_FILES[4]] \notin {Absent, Invalid}
  /\ result.files[CONFIG_FILES[4]] # Holds([output |-> Str(CONFIG_FILES[4])])
  /\ result.files["package.json"] \notin {Absent, Invalid, NoSection}
  /\ result.value.ok
  /\ result.value.config["output"] = Str(CONFIG_FILES[2])
  /\ result.value.config["sort"] = Str("type")

\* C23: when the command line holds -sortDirection=<direction>, the options
\* main validates and runs with have that sortDirection.
C23_SortDirectionOption ==
  (result.fn = "options" /\ result.value.ok) =>
    LET given == FlagValue(result.args, "-sortDirection")
    IN given # Undefined => Get(result.value.options, "sortDirection") = given

\* the levels of the tree: no entry is deeper than MaxNodes
Levels == 0..(MaxNodes + 1)

\* C25: when a callback is called for an entry at depth d, no level l >= d
\* is flagged open; when the top-level walkDir has resolved no level is.
C25_NoLeak ==
  /\ \A k \in 1..Len(visits) :
       visits[k].cb =>
         \A l \in Levels : l >= visits[k].depth => ~IsOpen(visits[k].open, l)
  /\ wpc = "resolved" => \A l \in Levels : ~IsOpen(depthOpen, l)

\* a callback for an entry that comes after a directory of its own listing
\* into which the walk descended with the level flagged open
C25_Witness ==
  /\ wpc = "resolved"
  /\ \E j, k \in 1..Len(visits) :
       /\ j < k
       /\ SameListing(j, k)
       /\ visits[j].isDir /\ ~visits[j].isLast
       /\ \E i \in 1..Len(visits) : Inside(j, i)
       /\ visits[k].cb

\* the paths the walk visited
Visited == { visits[i].fullPath : i \in 1..Len(visits) }

\* C26: no entry that matches the ignore patterns, or lies beneath a
\* directory that does, is visited or listed; no entry is visited twice; a
\* directory is listed only right after its visit; and when walkDir has
\* resolved, the visited entries are exactly those such that neither they
\* nor an ancestor below the scan root matches.
C26_Pruning ==
  /\ \A p \in Visited : ~Pruned(p)
  /\ \A i, j \in 1..Len(visits) : i # j => visits[i].fullPath # visits[j].fullPath
  /\ \A k \in 1..Len(stack) :
       /\ k > 1 => stack[k].dirPath \in Visited /\ fs[stack[k].dirPath].isDir
       /\ \A m \in 1..Len(stack) : m # k => stack[m].dirPath # stack[k].dirPath
  /\ wpc = "readdir" =>
       \/ Len(stack) = 1 /\ visits = <<>>
       \/ Len(stack) > 1 /\ visits[Len(visits)].fullPath = Top.dirPath
  /\ wpc = "resolved" =>
       Visited = { p \in DOMAIN fs : p # RootDir /\ ~Pruned(p) }

\* the walk is over; a directory matched a pattern and an entry beneath it,
\* which matches none, was not visited, while a sibling of the directory was
C26_Witness ==
  /\ wpc = "resolved"
  /\ \E p \in DOMAIN fs :
       /\ Pruned(p) /\ ~shouldIgnore(p, opts.ignore)
       /\ p \notin Visited
       /\ \E q \in Visited : dirname(q) = dirname(dirname(p))

\* C27: two files visited in the tree pass are visited in the same relative
\* order in the content pass of the run, under every sort method and
\* direction of the options.
C27_SameOrder ==
  \A i, j, k, l \in 1..Len(visits) :
    ( /\ visits[i].pass = "tree" /\ visits[j].pass = "tree"
      /\ visits[k].pass = "content" /\ visits[l].pass = "content"
      /\ ~visits[i].isDir /\ ~visits[j].isDir
      /\ visits[k].fullPath = visits[i].fullPath
      /\ visits[l].fullPath = visits[j].fullPath
      /\ i < j ) => k < l

\* C28: the order in which a listing is gone through does not depend on
\* the order readdir returns the children in: it is the order every answer
\* of readdir gives, under every sort method, equal sort keys included.
C28_Deterministic ==
  (wpc = "loop" /\ stack # <<>>) =>
    LET f == Top
        Keep(e) == ~shouldIgnore(join(f.dirPath, e.name), f.ignorePatterns)
    IN \A entries \in readdir(f.dirPath) :
         f.sortedEntries = sortEntries(SelectSeq(entries, Keep), f.dirPath,
                                       f.options.sort, f.options.sortDirection)

\* the paths whose listing, stat or reading fails
Failing == { p \in DOMAIN fs : ~fs[p].ok }

\* the step of a failing operation: the listing of an unreadable directory,
\* a sort by size or time over a dangling link, the stat or the read of a
\* file the callback is at
AtFailure ==
  \/ /\ wpc = "readdir"
     /\ \/ ~fs[Top.dirPath].ok
        \/ /\ Top.options.sort \in {"size", "modified"}
           /\ \E p \in Failing :
                fs[p].dangling /\ dirname(p) = Top.dirPath
                  /\ ~shouldIgnore(p, Top.ignorePatterns)
  \/ \E k \in 1..Len(visits) :
       \/ <<k, "stat">> \in active /\ fs[visits[k].fullPath].dangling
       \/ <<k, "read">> \in active /\ ~fs[visits[k].fullPath].ok

\* C29: a failing listing, stat or read rejects writeFileContent; once it
\* has rejected no file is visited, nothing is appended to the output and
\* the call never returns; as long as the call has not returned the two
\* path-list files hold what they held before it, and the output always
\* begins with what it held before the call followed by the entry of every
\* file read before the failure.
C29_Failure ==
  /\ [][AtFailure => wpc' = "rejected"]_vars
  /\ [][wpc = "rejected" =>
          /\ wpc' = "rejected"
          /\ UNCHANGED <<visits, output, sinkFiles, includedPaths, excludedPaths>>]_vars
  /\ [](wpc # "returned" => \A p \in SinkPaths : sinkFiles[p] = {OldText})
  /\ [](/\ IsPrefix(OutputBefore, output)
        /\ \A i \in 1..Len(includedPaths) :
             (fs[RootDir \o includedPaths[i]].ok
                /\ \A k \in 1..Len(visits) :
                     visits[k].relPath = includedPaths[i] => <<k, "read">> \notin active)
               => HasEntry(includedPaths[i]))

\* the call rejected at a file after the entry of an earlier file was
\* appended to the output
C29_Witness ==
  /\ wpc = "rejected"
  /\ Len(output) > Len(OutputBefore)
  /\ \E p \in Failing : ~fs[p].isDir /\ p \in { visits[k].fullPath : k \in 1..Len(visits) }
  /\ \A p \in SinkPaths : sinkFiles[p] = {OldText}

\* C30: a run whose options validateConfig rejects never gets past the
\* validation and ends with exit code 1; no step of it changes the output
\* file or a path-list file: every step that writes to one of them belongs
\* to a run whose options validateConfig accepted.
C30_ValidateFirst ==
  /\ [](validateConfigThrows(opts) =>
         /\ pc \in {"start", "exit"}
         /\ pc = "exit" => exitCode = {1})
  /\ [][(output' # output \/ sinkFiles' # sinkFiles) =>
          ~validateConfigThrows(opts) /\ pc' \notin {"start", "exit"}]_vars

\* a rejected run has ended and the output of the earlier run is as it was
C30_Witness ==
  /\ pc = "exit"
  /\ exitCode = {1}
  /\ validateConfigThrows(opts)
  /\ output = OutputLeft
  /\ \A p \in SinkPaths : sinkFiles[p] = {OldText}

====
